---- MODULE Spec2Model ----
(***************************************************************************)
(* Route matcher of vue-router: the ordered registry of record matchers    *)
(* (addRoute / removeRoute / insertMatcher) and the resolver (resolve).    *)
(*                                                                         *)
(* Strings are sequences of lexemes: "/users/:id" is                       *)
(* <<"/", "users", "/", ":", "id">>.  The lexemes "/", ":", "?", "*", "+", *)
(* "(" and ")" are the characters the path syntax gives a meaning to; any  *)
(* other lexeme is a run of plain text.  String concatenation is \o.       *)
(***************************************************************************)
EXTENDS Integers, Sequences, FiniteSets, TLC

\* ------------------------------------------------------------------ bounds
\* Number of addRoute calls made by the caller in one behaviour.
MaxAdds == 3

\* Number of removeRoute calls and removal callbacks invoked in one behaviour.
MaxRemoves == 2

\* Number of record matchers created in one behaviour.
MaxMatchers == 8

\* Number of addRoute calls and of removals in a behaviour that also resolves.
MaxResolverAdds == 2

MaxResolverRemoves == 1

\* Number of push, replace and fragment navigations in one behaviour.
MaxNavigations == 2

\* Number of go calls in one behaviour.
MaxGoes == 2

\* Number of listen calls in one behaviour.
MaxListens == 3

\* Number of teardown and destroy calls in one behaviour.
MaxTeardowns == 2

\* Number of documents loaded in the window in one behaviour.
MaxDocuments == 2

\* Number of entries of the session history.
MaxEntries == 3

\* navigate calls made on the link of a behaviour
MaxClicks == 1

\* records in the matched of a route
MaxMatched == 3

\* RouterViews nested in one another
MaxViews == 3

\* ----------------------------------------------------------- small helpers
EmptyMap == << >>

Last(s) == s[Len(s)]

Front(s) == SubSeq(s, 1, Len(s) - 1)

Range(s) == {s[i] : i \in DOMAIN s}

IndexOf(s, x) == IF \E i \in DOMAIN s : s[i] = x
                 THEN CHOOSE i \in DOMAIN s : s[i] = x /\ \A j \in 1..(i - 1) : s[j] # x
                 ELSE 0

RemoveAt(s, i) == SubSeq(s, 1, i - 1) \o SubSeq(s, i + 1, Len(s))

InsertAt(s, i, x) == SubSeq(s, 1, i - 1) \o <<x>> \o SubSeq(s, i, Len(s))

\* Object.assign(target, source): the keys of source override those of target.
assign(target, source) == source @@ target

\* ------------------------------------------------- pattern compiler (4.1)
\* The segments of a string between its "/" lexemes, the leading "/" dropped:
\* "/a/b" gives <<a, b>>, "/a/" gives <<a, "">>, "/" gives <<"">>.
RECURSIVE splitSlash(_, _, _)
splitSlash(s, i, buffer) ==
    IF i > Len(s) THEN <<buffer>>
    ELSE IF s[i] = "/" THEN <<buffer>> \o splitSlash(s, i + 1, << >>)
    ELSE splitSlash(s, i + 1, Append(buffer, s[i]))

pathSegments(s) == splitSlash(s, 2, << >>)

\* One segment of a pattern as its tokens.  A segment is empty (no token), a
\* static text, or one parameter ":name", ":name(re)", each with an optional
\* modifier "?", "*" or "+".
segmentTokens(seg) ==
    IF seg = << >> THEN << >>
    ELSE IF seg[1] # ":" THEN <<[type |-> "static", value |-> seg, regexp |-> "",
                                 optional |-> FALSE, repeatable |-> FALSE]>>
    ELSE <<[type |-> "param",
            value |-> seg[2],
            regexp |-> IF Len(seg) >= 5 /\ seg[3] = "(" /\ seg[5] = ")" THEN seg[4] ELSE "",
            optional |-> Last(seg) \in {"?", "*"},
            repeatable |-> Last(seg) \in {"*", "+"}]>>

\* tokenizePath: "" is one empty segment, "/" is one segment holding the root
\* token (a static token of empty text).
tokenizePath(path) ==
    IF path = << >> THEN << << >> >>
    ELSE IF path = <<"/">> THEN << <<[type |-> "static", value |-> << >>, regexp |-> "",
                                     optional |-> FALSE, repeatable |-> FALSE]>> >>
    ELSE LET segs == pathSegments(path)
         IN [i \in DOMAIN segs |-> segmentTokens(segs[i])]

\* All tokens of a pattern, in order.
RECURSIVE flatten(_)
flatten(ss) == IF ss = << >> THEN << >> ELSE ss[1] \o flatten(Tail(ss))

SelectTokens(ts, type) == SelectSeq(ts, LAMBDA t : t.type = type)

\* The parameter descriptors {name, optional, repeatable}, in group order.
parserKeys(path) ==
    LET ps == SelectTokens(flatten(tokenizePath(path)), "param")
    IN [i \in DOMAIN ps |-> [name |-> ps[i].value,
                             optional |-> ps[i].optional,
                             repeatable |-> ps[i].repeatable]]

\* Specificity weights, in hundredths (PathScore of the ranker).
ScoreRoot == 9000
ScoreSegment == 4000
ScoreStatic == 4000
ScoreDynamic == 2000
ScoreBonusCustomRegExp == 1000
ScoreBonusWildcard == -5000
ScoreBonusRepeatable == -2000
ScoreBonusOptional == -800

tokenScore(t) ==
    IF t.type = "static" THEN ScoreSegment + ScoreStatic
    ELSE ScoreSegment + ScoreDynamic
         + (IF t.regexp # "" THEN ScoreBonusCustomRegExp ELSE 0)
         + (IF t.optional THEN ScoreBonusOptional ELSE 0)
         + (IF t.repeatable THEN ScoreBonusRepeatable ELSE 0)
         + (IF t.regexp = ".*" THEN ScoreBonusWildcard ELSE 0)

\* One entry per segment, most significant first; an empty segment scores as
\* the root.
parserScore(path) ==
    LET segs == tokenizePath(path)
    IN [i \in DOMAIN segs |->
          IF segs[i] = << >> THEN <<ScoreRoot>>
          ELSE [j \in DOMAIN segs[i] |-> tokenScore(segs[i][j])]]

\* ---------------------------------------------------- score comparator (4.2)
RECURSIVE firstDiff(_, _, _)
firstDiff(a, b, i) ==
    IF i > Len(a) \/ i > Len(b) THEN 0
    ELSE IF b[i] - a[i] # 0 THEN b[i] - a[i]
    ELSE firstDiff(a, b, i + 1)

compareScoreArray(a, b) ==
    LET diff == firstDiff(a, b, 1)
    IN IF diff # 0 THEN diff
       ELSE IF Len(a) < Len(b)
            THEN (IF Len(a) = 1 /\ a[1] = ScoreStatic + ScoreSegment THEN -1 ELSE 1)
       ELSE IF Len(a) > Len(b)
            THEN (IF Len(b) = 1 /\ b[1] = ScoreStatic + ScoreSegment THEN 1 ELSE -1)
       ELSE 0

RECURSIVE firstSegmentDiff(_, _, _)
firstSegmentDiff(a, b, i) ==
    IF i > Len(a) \/ i > Len(b) THEN 0
    ELSE IF compareScoreArray(a[i], b[i]) # 0 THEN compareScoreArray(a[i], b[i])
    ELSE firstSegmentDiff(a, b, i + 1)

isLastScoreNegative(score) ==
    Len(score) > 0 /\ Len(Last(score)) > 0 /\ Last(Last(score)) < 0

Abs(n) == IF n < 0 THEN -n ELSE n

\* Negative when the pattern of score a is more specific than that of b.
compareScores(a, b) ==
    LET comp == firstSegmentDiff(a, b, 1)
    IN IF comp # 0 THEN comp
       ELSE IF Abs(Len(b) - Len(a)) = 1 /\ isLastScoreNegative(a) THEN 1
       ELSE IF Abs(Len(b) - Len(a)) = 1 /\ isLastScoreNegative(b) THEN -1
       ELSE Len(b) - Len(a)

\* ------------------------------------------------------------ parse (4.1)
NoMatch == [matched |-> FALSE, params |-> EmptyMap]

\* The matching options every pattern is compiled with when neither the caller
\* of createRouterMatcher nor the definition gives any.
globalOptions == [strict |-> FALSE, end |-> TRUE, sensitive |-> FALSE]

\* Lower case of a lexeme (the only upper-case lexeme of the paths used here).
lowerCase(lexeme) == IF lexeme = "USERS" THEN "users" ELSE lexeme

\* Static text compared according to the sensitive option.
sameText(a, b) ==
    IF globalOptions.sensitive THEN a = b
    ELSE /\ Len(a) = Len(b)
         /\ \A i \in DOMAIN a : i \in DOMAIN b => lowerCase(a[i]) = lowerCase(b[i])

\* Whether one path segment satisfies a parameter's expression: the default
\* expression takes any non-empty text, "\\d+" takes digits, ".*" anything.
Digits == {"1", "2", "42"}

segmentFits(t, seg) ==
    IF t.regexp = ".*" THEN TRUE
    ELSE IF t.regexp = "\\d+" THEN seg # << >> /\ \A i \in DOMAIN seg : seg[i] \in Digits
    ELSE seg # << >>

\* Percent-decoding of one segment: "%2F" stands for an encoded "/".
decode(seg) == [i \in DOMAIN seg |-> IF seg[i] = "%2F" THEN "/" ELSE seg[i]]

\* Percent-encoding of one value as a path segment.
encodeParam(text) == [i \in DOMAIN text |-> IF text[i] = "/" THEN "%2F" ELSE text[i]]

StringValue(text) == [isArray |-> FALSE, v |-> text]

ArrayValue(texts) == [isArray |-> TRUE, v |-> texts]

\* The expression of the pattern applied to the segments of a path from
\* position j on, the tokens from position i on; repeatable and optional
\* parameters are greedy and backtrack.  Not strict: one trailing "/" is
\* accepted.
RECURSIVE matchFrom(_, _, _, _)
RECURSIVE matchRepeat(_, _, _, _, _)
matchFrom(ts, i, segs, j) ==
    IF i > Len(ts)
    THEN IF j > Len(segs) \/ (~globalOptions.strict /\ j = Len(segs) /\ segs[j] = << >>)
         THEN [matched |-> TRUE, params |-> EmptyMap]
         ELSE NoMatch
    ELSE LET t == ts[i] IN
         IF t.type = "static"
         THEN IF j <= Len(segs) /\ sameText(segs[j], t.value)
              THEN matchFrom(ts, i + 1, segs, j + 1)
              ELSE NoMatch
         ELSE LET most == IF t.repeatable THEN Len(segs) - j + 1
                          ELSE IF j <= Len(segs) THEN 1 ELSE 0
              IN matchRepeat(ts, i, segs, j, most)

\* Parameter ts[i] takes k segments from j on; on failure it takes one less.
matchRepeat(ts, i, segs, j, k) ==
    LET t == ts[i]
        least == IF t.optional THEN 0 ELSE 1
        taken == SubSeq(segs, j, j + k - 1)
        rest == matchFrom(ts, i + 1, segs, j + k)
        value == IF t.repeatable
                 THEN ArrayValue([n \in DOMAIN taken |-> decode(taken[n])])
                 ELSE StringValue(decode(taken[1]))
    IN IF k < least THEN NoMatch
       ELSE IF (\A n \in DOMAIN taken : segmentFits(t, taken[n])) /\ rest.matched
            THEN [matched |-> TRUE,
                  params |-> IF k = 0 THEN rest.params
                             ELSE assign(rest.params, t.value :> value)]
       ELSE matchRepeat(ts, i, segs, j, k - 1)

\* parse(path): the parameters of a path the pattern matches, or NoMatch.
\* The expression is anchored at the start: the path begins with "/", or is
\* empty and so is everything the pattern requires.
parserParse(pattern, path) ==
    LET ts == flatten(tokenizePath(pattern))
    IN IF path = << >> THEN matchFrom(ts, 1, << >>, 1)
       ELSE IF path[1] # "/" THEN NoMatch
       ELSE matchFrom(ts, 1, pathSegments(path), 1)

\* re.test(path)
parserTest(pattern, path) == parserParse(pattern, path).matched

\* --------------------------------------------------------- stringify (4.1)
StringifyError == [failed |-> TRUE, path |-> << >>]

RECURSIVE joinSlash(_)
joinSlash(texts) ==
    IF texts = << >> THEN << >>
    ELSE IF Len(texts) = 1 THEN encodeParam(texts[1])
    ELSE encodeParam(texts[1]) \o <<"/">> \o joinSlash(Tail(texts))

\* The text a parameter contributes, or a failure: a required parameter is
\* missing, or the value given for a repeatable parameter is not a sequence.
paramText(t, params) ==
    IF t.value \notin DOMAIN params
    THEN [failed |-> ~t.optional, path |-> << >>]
    ELSE LET p == params[t.value] IN
         IF t.repeatable /\ ~p.isArray THEN StringifyError
         ELSE LET text == IF p.isArray THEN joinSlash(p.v) ELSE encodeParam(p.v)
              IN [failed |-> text = << >> /\ ~t.optional, path |-> text]

RECURSIVE stringifyFrom(_, _, _)
stringifyFrom(segs, i, params) ==
    IF i > Len(segs) THEN [failed |-> FALSE, path |-> << >>]
    ELSE LET rest == stringifyFrom(segs, i + 1, params)
             here == IF segs[i] = << >> THEN [failed |-> FALSE, path |-> << >>]
                     ELSE IF segs[i][1].type = "static"
                          THEN [failed |-> FALSE, path |-> segs[i][1].value]
                     ELSE paramText(segs[i][1], params)
         IN IF here.failed \/ rest.failed THEN StringifyError
            \* an optional parameter left empty contributes no segment
            ELSE IF segs[i] # << >> /\ segs[i][1].type = "param" /\ here.path = << >>
                 THEN rest
            ELSE [failed |-> FALSE, path |-> <<"/">> \o here.path \o rest.path]

\* stringify(params): the path of the pattern for the parameters; never the
\* empty string.
parserStringify(pattern, params) ==
    LET r == stringifyFrom(tokenizePath(pattern), 1, params)
    IN IF r.failed THEN StringifyError
       ELSE IF r.path = << >> THEN [failed |-> FALSE, path |-> <<"/">>]
       ELSE r

\* ------------------------------------------------------- route definitions
NoName == ""

NoMatcher == 0

NoComponents == [present |-> FALSE, slots |-> {}, object |-> 0]

\* {component: X}: normalizeRouteRecord wraps it in a new object each time.
View == [present |-> TRUE, slots |-> {"default"}, object |-> 0]

\* {components: {default: X}}: object (positive) names the mapping the caller
\* wrote, which normalizeRouteRecord keeps as it is.
Views(object) == [present |-> TRUE, slots |-> {"default"}, object |-> object]

\* A raw route definition (RouteRecordRaw).  alias is the sequence of alias
\* paths, children the sequence of nested definitions.
RouteRecordRaw(path, name, alias, children, components, redirect, meta) ==
    [path |-> path, name |-> name, alias |-> alias, children |-> children,
     components |-> components, redirect |-> redirect, meta |-> meta]

\* normalizeRouteRecord: the record of the matcher that will get identity id.
\* components.owner is the identity of the components object, so that sharing
\* by reference is visible: 0 when the record has none, the identity of the
\* record for which the object was made when the definition says component,
\* and the negated name of the caller's mapping when it says components.
normalizeRouteRecord(record, id) ==
    [path |-> record.path,
     redirect |-> record.redirect,
     name |-> record.name,
     meta |-> record.meta,
     aliasOf |-> NoMatcher,
     children |-> record.children,
     components |-> [owner |-> IF ~record.components.present THEN NoMatcher
                               ELSE IF record.components.object # 0
                               THEN 0 - record.components.object
                               ELSE id,
                     slots |-> record.components.slots]]

\* ------------------------------------------------------------ the registry
\* A registry value st holds
\*   arena      every record matcher ever created, addressed by identity
\*              (its index); a matcher is [record, parent, children, alias]
\*   matchers   the ordered sequence of inserted matchers (identities)
\*   matcherMap name -> matcher, NoMatcher when the name is not registered
Names == {"user", "thing", "a-home", "a-b", "p", "c", "m", "k", "opt", "files", "s-t",
          "num", "ghost"}

\* createRouteRecordMatcher: the new matcher gets the next identity; it is
\* appended to its parent's children when both are aliases or both are not.
createRouteRecordMatcher(st, record, parent) ==
    LET id == Len(st.arena) + 1
        matcher == [record |-> record, parent |-> parent,
                    children |-> << >>, alias |-> << >>]
        arena1 == Append(st.arena, matcher)
    IN [st EXCEPT !.arena =
          IF parent # NoMatcher
             /\ ((record.aliasOf = NoMatcher) = (arena1[parent].record.aliasOf = NoMatcher))
          THEN [arena1 EXCEPT ![parent].children = Append(@, id)]
          ELSE arena1]

comparePathParserScore(st, a, b) ==
    compareScores(parserScore(st.arena[a].record.path),
                  parserScore(st.arena[b].record.path))

\* isAliasRecord: the record or any of its parents is an alias.
RECURSIVE isAliasRecord(_, _)
isAliasRecord(st, id) ==
    IF id = NoMatcher THEN FALSE
    ELSE IF st.arena[id].record.aliasOf # NoMatcher THEN TRUE
    ELSE isAliasRecord(st, st.arena[id].parent)

RECURSIVE isRecordChildOf(_, _, _)
isRecordChildOf(st, record, parent) ==
    \E i \in DOMAIN st.arena[parent].children :
        LET child == st.arena[parent].children[i]
        IN child = record \/ isRecordChildOf(st, record, child)

\* insertMatcher's loop with the score ignored: the new matcher goes last.
insertionIndexAppend(st, matcher, i) == Len(st.matchers) + 1

\* insertMatcher's loop with the comparison turned around.
RECURSIVE insertionIndexReversed(_, _, _)
insertionIndexReversed(st, matcher, i) ==
    IF /\ i <= Len(st.matchers)
       /\ comparePathParserScore(st, matcher, st.matchers[i]) <= 0
    THEN insertionIndexReversed(st, matcher, i + 1)
    ELSE i

\* insertMatcher's loop stopping at the first matcher that is not more
\* specific: the new matcher goes before its equals.
RECURSIVE insertionIndexBeforeEquals(_, _, _)
insertionIndexBeforeEquals(st, matcher, i) ==
    IF /\ i <= Len(st.matchers)
       /\ comparePathParserScore(st, matcher, st.matchers[i]) > 0
    THEN insertionIndexBeforeEquals(st, matcher, i + 1)
    ELSE i

\* The position insertMatcher's loop stops at, scanning from i.
RECURSIVE insertionIndex(_, _, _)
insertionIndex(st, matcher, i) ==
    IF /\ i <= Len(st.matchers)
       /\ comparePathParserScore(st, matcher, st.matchers[i]) >= 0
       /\ (\/ st.arena[matcher].record.path # st.arena[st.matchers[i]].record.path
           \/ ~isRecordChildOf(st, matcher, st.matchers[i]))
    THEN insertionIndex(st, matcher, i + 1)
    ELSE i

\* insertMatcher recording aliases in the name table too.
insertMatcherAnyRecord(st, matcher) ==
    LET i == insertionIndex(st, matcher, 1)
        name == st.arena[matcher].record.name
    IN [st EXCEPT !.matchers = InsertAt(@, i, matcher),
                  !.matcherMap = IF name # NoName THEN [@ EXCEPT ![name] = matcher] ELSE @]

\* insertMatcher never writing the name table.
insertMatcherSequenceOnly(st, matcher) ==
    [st EXCEPT !.matchers = InsertAt(@, insertionIndex(st, matcher, 1), matcher)]

insertMatcher(st, matcher) ==
    LET i == insertionIndex(st, matcher, 1)
        name == st.arena[matcher].record.name
    IN [st EXCEPT !.matchers = InsertAt(@, i, matcher),
                  !.matcherMap = IF name # NoName /\ ~isAliasRecord(st, matcher)
                                 THEN [@ EXCEPT ![name] = matcher]
                                 ELSE @]

\* matchers.splice(index, 1) with a JavaScript index: -1 (here 0) removes the
\* last element.
spliceOne(s, index) ==
    IF index = 0 THEN (IF s = << >> THEN s ELSE Front(s)) ELSE RemoveAt(s, index)

RECURSIVE removeRoute(_, _)
RECURSIVE removeEach(_, _, _)
\* removeRoute(matcher) without the test of the index: splice(-1, 1) takes the
\* last matcher of the sequence away.
removeRouteUnguarded(st, matcherRef) ==
    LET index == IndexOf(st.matchers, matcherRef)
        name == st.arena[matcherRef].record.name
    IN IF index > 0
       THEN LET st1 == [st EXCEPT !.matchers = RemoveAt(@, index),
                                  !.matcherMap = IF name # NoName
                                                 THEN [@ EXCEPT ![name] = NoMatcher]
                                                 ELSE @]
                st2 == removeEach(st1, st.arena[matcherRef].children, 1)
            IN removeEach(st2, st.arena[matcherRef].alias, 1)
       ELSE [st EXCEPT !.matchers = spliceOne(@, 0)]

\* removeRoute(matcher) leaving the name of the matcher in the name table.
removeRouteKeepingName(st, matcherRef) ==
    LET index == IndexOf(st.matchers, matcherRef)
    IN IF index > 0
       THEN LET st1 == [st EXCEPT !.matchers = RemoveAt(@, index)]
                st2 == removeEach(st1, st.arena[matcherRef].children, 1)
            IN removeEach(st2, st.arena[matcherRef].alias, 1)
       ELSE st

\* removeRoute(matcher): by matcher reference.
removeRoute(st, matcherRef) ==
    LET index == IndexOf(st.matchers, matcherRef)
        name == st.arena[matcherRef].record.name
    IN IF index > 0
       THEN LET st1 == [st EXCEPT !.matchers = RemoveAt(@, index),
                                  !.matcherMap = IF name # NoName
                                                 THEN [@ EXCEPT ![name] = NoMatcher]
                                                 ELSE @]
                st2 == removeEach(st1, st.arena[matcherRef].children, 1)
            IN removeEach(st2, st.arena[matcherRef].alias, 1)
       ELSE st

\* list.forEach(removeRoute)
removeEach(st, list, i) ==
    IF i > Len(list) THEN st ELSE removeEach(removeRoute(st, list[i]), list, i + 1)

\* removeRoute(name): by route name.
removeRouteByName(st, name) ==
    LET matcher == st.matcherMap[name]
    IN IF matcher # NoMatcher
       THEN LET st1 == [st EXCEPT !.matcherMap = [@ EXCEPT ![name] = NoMatcher],
                                  !.matchers = spliceOne(@, IndexOf(@, matcher))]
                st2 == removeEach(st1, st.arena[matcher].children, 1)
            IN removeEach(st2, st.arena[matcher].alias, 1)
       ELSE st

\* joinPath always putting a "/" between the two paths.
joinPathAlwaysSlash(parentPath, path) == parentPath \o <<"/">> \o path

\* parent.record.path + (path && connectingSlash + path)
joinPath(parentPath, path) ==
    LET connectingSlash == IF parentPath # << >> /\ Last(parentPath) = "/"
                           THEN << >> ELSE <<"/">>
    IN parentPath \o (IF path = << >> THEN << >> ELSE connectingSlash \o path)

\* isInsertable counting a definition that has children as displayable.
isInsertableWithChildren(st, matcher) ==
    LET record == st.arena[matcher].record
    IN \/ (record.components.owner # NoMatcher /\ record.components.slots # {})
       \/ record.name # NoName
       \/ record.redirect # NoName
       \/ record.children # << >>

\* The matcher displays something: it has a view, a name or a redirect.
isInsertable(st, matcher) ==
    LET record == st.arena[matcher].record
    IN \/ (record.components.owner # NoMatcher /\ record.components.slots # {})
       \/ record.name # NoName
       \/ record.redirect # NoName

\* normalizedRecords without the copies made for the alias paths.
normalizedRecordsMainOnly(st, record, originalRecord) ==
    <<[normalizeRouteRecord(record, Len(st.arena) + 1) EXCEPT !.aliasOf = originalRecord]>>

\* normalizedRecords with alias copies that drop the name of the definition.
normalizedRecordsUnnamedAlias(st, record, originalRecord) ==
    LET mainId == Len(st.arena) + 1
        main == [normalizeRouteRecord(record, mainId) EXCEPT !.aliasOf = originalRecord]
    IN <<main>> \o
       [i \in DOMAIN record.alias |->
          [main EXCEPT !.components = IF originalRecord # NoMatcher
                                      THEN st.arena[originalRecord].record.components
                                      ELSE main.components,
                       !.path = record.alias[i],
                       !.name = NoName,
                       !.aliasOf = IF originalRecord # NoMatcher
                                   THEN originalRecord ELSE mainId]]

\* The normalized records of one addRoute call: the main one, then one copy
\* per alias path.
normalizedRecords(st, record, originalRecord) ==
    LET mainId == Len(st.arena) + 1
        main == [normalizeRouteRecord(record, mainId) EXCEPT !.aliasOf = originalRecord]
    IN <<main>> \o
       [i \in DOMAIN record.alias |->
          [main EXCEPT !.components = IF originalRecord # NoMatcher
                                      THEN st.arena[originalRecord].record.components
                                      ELSE main.components,
                       !.path = record.alias[i],
                       !.aliasOf = IF originalRecord # NoMatcher
                                   THEN originalRecord ELSE mainId]]

RECURSIVE addRoute(_, _, _, _)
RECURSIVE addRecords(_, _, _, _, _, _, _, _)
RECURSIVE addChildren(_, _, _, _, _)
\* addRoute(record, parent, originalRecord): the registry after the call and
\* the matcher its removal callback closes over (NoMatcher: the callback is
\* noop).
addRoute(st, record, parent, originalRecord) ==
    addRecords(st, record, normalizedRecords(st, record, originalRecord), 1,
               parent, originalRecord, originalRecord = NoMatcher, NoMatcher)

\* The k-th turn of the loop over the normalized records.
addRecords(st, record, recs, k, parent, originalRecord, isRootAdd, originalMatcher) ==
    IF k > Len(recs) THEN [st |-> st, originalMatcher |-> originalMatcher]
    ELSE
    LET path == recs[k].path
        normalizedRecord ==
            IF parent # NoMatcher /\ (path = << >> \/ path[1] # "/")
            THEN [recs[k] EXCEPT !.path = joinPath(st.arena[parent].record.path, path)]
            ELSE recs[k]
        matcher == Len(st.arena) + 1
        st1 == createRouteRecordMatcher(st, normalizedRecord, parent)
        original1 == IF originalRecord # NoMatcher THEN originalMatcher
                     ELSE IF originalMatcher # NoMatcher THEN originalMatcher
                     ELSE matcher
        st2 == IF originalRecord # NoMatcher
               THEN [st1 EXCEPT !.arena[originalRecord].alias = Append(@, matcher)]
               ELSE LET s == IF original1 # matcher
                             THEN [st1 EXCEPT !.arena[original1].alias = Append(@, matcher)]
                             ELSE st1
                    IN IF isRootAdd /\ record.name # NoName /\ ~isAliasRecord(s, matcher)
                       THEN removeRouteByName(s, record.name)
                       ELSE s
        st3 == addChildren(st2, record.children, 1, matcher, originalRecord)
        originalRecord1 == IF originalRecord # NoMatcher THEN originalRecord ELSE matcher
        st4 == IF isInsertable(st3, matcher) THEN insertMatcher(st3, matcher) ELSE st3
    IN addRecords(st4, record, recs, k + 1, parent, originalRecord1, isRootAdd, original1)

\* The loop over the children of the definition, under matcher.
addChildren(st, children, i, matcher, originalRecord) ==
    IF i > Len(children) THEN st
    ELSE LET originalChild ==
                 IF originalRecord # NoMatcher
                    /\ i <= Len(st.arena[originalRecord].children)
                 THEN st.arena[originalRecord].children[i]
                 ELSE NoMatcher
         IN addChildren(addRoute(st, children[i], matcher, originalChild).st,
                        children, i + 1, matcher, originalRecord)

\* getRoutes(): the ordered sequence.
getRoutes(st) == st.matchers

\* getRecordMatcher(name): the entry of the name table (NoMatcher: undefined).
getRecordMatcher(st, name) == st.matcherMap[name]

\* ------------------------------------------------------------ the resolver
\* paramsFromLocation keeping every entry.
paramsFromLocationUnfiltered(params, keys) == params

\* paramsFromLocation: the entries of params whose key is listed in keys.
paramsFromLocation(params, keys) ==
    [k \in Range(keys) \cap DOMAIN params |-> params[k]]

\* The fold with the accumulated mapping written over each record's meta: the
\* shallowest record that defines a key wins.
RECURSIVE mergeMetaFromRootWins(_, _, _, _)
mergeMetaFromRootWins(st, matched, i, meta) ==
    IF i > Len(matched) THEN meta
    ELSE mergeMetaFromRootWins(st, matched, i + 1,
                               assign(st.arena[matched[i]].record.meta, meta))

\* mergeMetaFields: the metas of the matched records folded left to right into
\* a fresh mapping.
RECURSIVE mergeMetaFrom(_, _, _, _)
mergeMetaFrom(st, matched, i, meta) ==
    IF i > Len(matched) THEN meta
    ELSE mergeMetaFrom(st, matched, i + 1, assign(meta, st.arena[matched[i]].record.meta))

mergeMetaFields(st, matched) == mergeMetaFrom(st, matched, 1, EmptyMap)

\* The records after the fold of mergeMetaFields: assign writes into the
\* accumulator, which is the fresh mapping the fold starts from, so the metas
\* of the matched records are only read.
mergeMetaStore(st, matched) == st.arena

\* matchedChain leaving out the ancestors that are not in the ordered sequence.
RECURSIVE matchedChainSearchable(_, _)
matchedChainSearchable(st, matcher) ==
    IF matcher = NoMatcher THEN << >>
    ELSE LET above == matchedChainSearchable(st, st.arena[matcher].parent)
         IN IF IndexOf(st.matchers, matcher) > 0 THEN Append(above, matcher) ELSE above

\* The records of the parent chain of matcher, root first (each record is
\* named by the identity of its matcher).
RECURSIVE matchedChain(_, _)
matchedChain(st, matcher) ==
    IF matcher = NoMatcher THEN << >>
    ELSE Append(matchedChain(st, st.arena[matcher].parent), matcher)

\* findMatcher keeping the last matcher that matches instead of the first.
RECURSIVE findMatcherLast(_, _, _)
findMatcherLast(st, path, i) ==
    IF i > Len(st.matchers) THEN NoMatcher
    ELSE LET later == findMatcherLast(st, path, i + 1)
         IN IF later # NoMatcher THEN later
            ELSE IF parserTest(st.arena[st.matchers[i]].record.path, path)
            THEN st.matchers[i]
            ELSE NoMatcher

\* matchers.find(m => m.re.test(path))
RECURSIVE findMatcher(_, _, _)
findMatcher(st, path, i) ==
    IF i > Len(st.matchers) THEN NoMatcher
    ELSE IF parserTest(st.arena[st.matchers[i]].record.path, path) THEN st.matchers[i]
    ELSE findMatcher(st, path, i + 1)

matcherKeys(st, matcher) == parserKeys(st.arena[matcher].record.path)

keyNames(keys) == [i \in DOMAIN keys |-> keys[i].name]

Thrown(error) ==
    [error |-> error, name |-> NoName, path |-> << >>, params |-> EmptyMap,
     matched |-> << >>, meta |-> EmptyMap]

MatcherLocation(st, matcher, name, path, params) ==
    LET matched == matchedChain(st, matcher)
    IN [error |-> "", name |-> name, path |-> path, params |-> params,
        matched |-> matched, meta |-> mergeMetaFields(st, matched)]

\* mergedParams with the two arguments of assign exchanged.
mergedParamsCurrentWins(st, matcher, location, currentLocation) ==
    LET keys == matcherKeys(st, matcher)
        carried == paramsFromLocation(
                       currentLocation.params,
                       keyNames(SelectSeq(keys, LAMBDA k : ~k.optional)))
    IN IF location.hasParams
       THEN assign(paramsFromLocation(location.params, keyNames(keys)), carried)
       ELSE carried

\* The parameters of a by-name resolution: the non-optional parameters of the
\* target carried over from the current location, overridden by the supplied
\* parameters the target declares.
mergedParams(st, matcher, location, currentLocation) ==
    LET keys == matcherKeys(st, matcher)
        carried == paramsFromLocation(
                       currentLocation.params,
                       keyNames(SelectSeq(keys, LAMBDA k : ~k.optional)))
    IN IF location.hasParams
       THEN assign(carried, paramsFromLocation(location.params, keyNames(keys)))
       ELSE carried

\* resolveByName falling back to the current path when the name is unknown.
resolveByNameFallback(st, location, currentLocation) ==
    LET matcher == st.matcherMap[location.name] IN
    IF matcher = NoMatcher
    THEN MatcherLocation(st, findMatcher(st, currentLocation.path, 1), NoName,
                         currentLocation.path, EmptyMap)
    ELSE LET params == mergedParams(st, matcher, location, currentLocation)
             path == parserStringify(st.arena[matcher].record.path, params)
         IN IF path.failed THEN Thrown("STRINGIFY")
            ELSE MatcherLocation(st, matcher, st.arena[matcher].record.name,
                                 path.path, params)

\* resolveByName catching the error of stringify.
resolveByNameSwallow(st, location, currentLocation) ==
    LET matcher == st.matcherMap[location.name] IN
    IF matcher = NoMatcher THEN Thrown("MATCHER_NOT_FOUND")
    ELSE LET params == mergedParams(st, matcher, location, currentLocation)
             path == parserStringify(st.arena[matcher].record.path, params)
         IN MatcherLocation(st, matcher, st.arena[matcher].record.name,
                            IF path.failed THEN <<"/">> ELSE path.path, params)

\* resolve, the request carrying a name.
resolveByName(st, location, currentLocation) ==
    LET matcher == st.matcherMap[location.name] IN
    IF matcher = NoMatcher THEN Thrown("MATCHER_NOT_FOUND")
    ELSE LET params == mergedParams(st, matcher, location, currentLocation)
             path == parserStringify(st.arena[matcher].record.path, params)
         IN IF path.failed THEN Thrown("STRINGIFY")
            ELSE MatcherLocation(st, matcher, st.arena[matcher].record.name,
                                 path.path, params)

\* resolveByPath without the call of parse: the params stay empty.
resolveByPathNoParams(st, location) ==
    LET matcher == findMatcher(st, location.path, 1) IN
    IF matcher # NoMatcher
    THEN MatcherLocation(st, matcher, st.arena[matcher].record.name, location.path,
                         EmptyMap)
    ELSE MatcherLocation(st, NoMatcher, NoName, location.path, EmptyMap)

\* resolveByPath treating a path nothing matches as an error.
resolveByPathStrict(st, location) ==
    LET matcher == findMatcher(st, location.path, 1) IN
    IF matcher # NoMatcher
    THEN MatcherLocation(st, matcher, st.arena[matcher].record.name, location.path,
                         parserParse(st.arena[matcher].record.path, location.path).params)
    ELSE Thrown("MATCHER_NOT_FOUND")

\* resolve, the request carrying a path.
resolveByPath(st, location) ==
    LET matcher == findMatcher(st, location.path, 1) IN
    IF matcher # NoMatcher
    THEN MatcherLocation(st, matcher, st.arena[matcher].record.name, location.path,
                         parserParse(st.arena[matcher].record.path, location.path).params)
    ELSE MatcherLocation(st, NoMatcher, NoName, location.path, EmptyMap)

\* resolveRelative with the current params written over the supplied ones.
resolveRelativeCurrentWins(st, location, currentLocation) ==
    LET matcher == IF currentLocation.name # NoName
                   THEN st.matcherMap[currentLocation.name]
                   ELSE findMatcher(st, currentLocation.path, 1)
    IN IF matcher = NoMatcher THEN Thrown("MATCHER_NOT_FOUND")
       ELSE LET params == IF location.hasParams
                          THEN assign(location.params, currentLocation.params)
                          ELSE currentLocation.params
                path == parserStringify(st.arena[matcher].record.path, params)
            IN IF path.failed THEN Thrown("STRINGIFY")
               ELSE MatcherLocation(st, matcher, st.arena[matcher].record.name,
                                    path.path, params)

\* resolve, the request carrying neither: relative to the current location.
resolveRelative(st, location, currentLocation) ==
    LET matcher == IF currentLocation.name # NoName
                   THEN st.matcherMap[currentLocation.name]
                   ELSE findMatcher(st, currentLocation.path, 1)
    IN IF matcher = NoMatcher THEN Thrown("MATCHER_NOT_FOUND")
       ELSE LET params == IF location.hasParams
                          THEN assign(currentLocation.params, location.params)
                          ELSE currentLocation.params
                path == parserStringify(st.arena[matcher].record.path, params)
            IN IF path.failed THEN Thrown("STRINGIFY")
               ELSE MatcherLocation(st, matcher, st.arena[matcher].record.name,
                                    path.path, params)

\* A request is [name, hasPath, path, hasParams, params]; the current location
\* is [name, path, params].  The result is the MatcherLocation, or the error
\* thrown.
resolve(st, location, currentLocation) ==
    IF location.name # NoName THEN resolveByName(st, location, currentLocation)
    ELSE IF location.hasPath THEN resolveByPath(st, location)
    ELSE resolveRelative(st, location, currentLocation)

\* ------------------------------------------------------------------ inputs
Str(text) == StringValue(<<text>>)

\* The route definitions the caller registers.
StaticAB == RouteRecordRaw(<<"/", "a", "/", "b">>, NoName, << >>, << >>, View, NoName, EmptyMap)

DynamicAId == RouteRecordRaw(<<"/", "a", "/", ":", "id">>, NoName, << >>, << >>, View,
                             NoName, EmptyMap)

User == RouteRecordRaw(<<"/", "users", "/", ":", "id">>, "user", << >>, << >>, View,
                       NoName, EmptyMap)

\* {path: "/old", alias: "/new", name: "thing"}
Thing == RouteRecordRaw(<<"/", "old">>, "thing", << <<"/", "new">> >>, << >>, View,
                        NoName, "t" :> 1)

\* {path: "/a", children: [{path: "", name: "a-home"}, {path: "b", name: "a-b"}]}
GroupA == RouteRecordRaw(<<"/", "a">>, NoName, << >>,
              << RouteRecordRaw(<< >>, "a-home", << >>, << >>, View, NoName, EmptyMap),
                 RouteRecordRaw(<<"b">>, "a-b", << >>, << >>, View, NoName, EmptyMap) >>,
              NoComponents, NoName, "g" :> 1)

\* A named parent whose child is a pass-through group with a named child.
ParentP == RouteRecordRaw(<<"/", "p">>, "p", << >>,
              << RouteRecordRaw(<<"g">>, NoName, << >>,
                    << RouteRecordRaw(<<"c">>, "c", << >>, << >>, View, NoName, EmptyMap) >>,
                    NoComponents, NoName, EmptyMap) >>,
              View, NoName, "p" :> 1)

\* Another definition of the name "p", with a plain child.
OtherP == RouteRecordRaw(<<"/", "q">>, "p", << >>,
              << RouteRecordRaw(<<"d">>, NoName, << >>, << >>, View, NoName, EmptyMap) >>,
              View, NoName, "p" :> 2)

\* An aliased parent with an aliased child.
AliasedM == RouteRecordRaw(<<"/", "m">>, "m", << <<"/", "n">> >>,
              << RouteRecordRaw(<<"k">>, "k", << <<"j">> >>, << >>, View, NoName,
                                "k" :> 1) >>,
              View, NoName, "m" :> 1)

\* {path: "/o/:id/:x?", name: "opt"}
Opt == RouteRecordRaw(<<"/", "o", "/", ":", "id", "/", ":", "x", "?">>, "opt", << >>, << >>,
                      View, NoName, EmptyMap)

\* {path: "/f/:rest+", name: "files"}
Files == RouteRecordRaw(<<"/", "f", "/", ":", "rest", "+">>, "files", << >>, << >>,
                        View, NoName, EmptyMap)

\* A parent with a view whose child overrides one of its meta keys.
Section == RouteRecordRaw(<<"/", "s">>, NoName, << >>,
              << RouteRecordRaw(<<"t">>, "s-t", << >>, << >>, View, NoName,
                                ("t" :> 2) @@ ("u" :> 1)) >>,
              View, NoName, ("t" :> 1) @@ ("s" :> 1))

\* An aliased parent with a child, both written with the components option.
AliasedV == RouteRecordRaw(<<"/", "v">>, NoName, << <<"/", "w">> >>,
              << RouteRecordRaw(<<"k">>, NoName, << >>, << >>, Views(2), NoName, EmptyMap) >>,
              Views(1), NoName, EmptyMap)

\* {path: "/n/:id(\\d+)", name: "num"}
Numbered == RouteRecordRaw(<<"/", "n", "/", ":", "id", "(", "\\d+", ")">>, "num", << >>, << >>,
                           View, NoName, EmptyMap)

\* {path: "/", children: [{path: "x"}, {path: "/abs", alias: "y"}]}
Home == RouteRecordRaw(<<"/">>, NoName, << >>,
            << RouteRecordRaw(<<"x">>, NoName, << >>, << >>, View, NoName, EmptyMap),
               RouteRecordRaw(<<"/", "abs">>, NoName, << <<"y">> >>, << >>, View, NoName,
                              EmptyMap) >>,
            View, NoName, EmptyMap)

Catalogue == <<StaticAB, DynamicAId, User, Thing, GroupA, ParentP, OtherP, AliasedM, Opt, Files,
               Section, AliasedV, Numbered, Home>>

\* Definitions added under an existing matcher: addRoute(record, parent).
ChildCatalogue ==
    << RouteRecordRaw(<<"k">>, "k", << >>, << >>, View, NoName, EmptyMap),
       RouteRecordRaw(<< >>, NoName, << >>, << >>, View, NoName, EmptyMap) >>

\* The parameter objects of requests and current locations.
NoParams == EmptyMap

Id42 == "id" :> Str("42")

Id42Zzz == ("id" :> Str("42")) @@ ("zzz" :> Str("1"))

X9 == "x" :> Str("9")

IdAbc == "id" :> Str("abc")

\* An optional parameter given the empty string.
Id42NoX == ("id" :> Str("42")) @@ ("x" :> StringValue(<< >>))

RestAB == "rest" :> ArrayValue(<< <<"a">>, <<"b">> >>)

RestString == "rest" :> Str("a")

AtRoot == [name |-> NoName, path |-> <<"/">>, params |-> EmptyMap]

AtOpt == [name |-> "opt", path |-> <<"/", "o", "/", "7", "/", "8">>,
          params |-> ("id" :> Str("7")) @@ ("x" :> Str("8"))]

AtFiles == [name |-> "files", path |-> <<"/", "f", "/", "c">>,
            params |-> "rest" :> ArrayValue(<< <<"c">> >>)]

\* A current location without a name: it is found again by its path.
AtUser == [name |-> NoName, path |-> <<"/", "users", "/", "7">>,
           params |-> "id" :> Str("7")]

AtNew == [name |-> NoName, path |-> <<"/", "new">>, params |-> EmptyMap]

\* One behaviour registers definitions of one of these groups: defs are the
\* definitions added at top level, children those added under an existing
\* matcher, maxAdds and maxRemoves the number of calls made; names, params,
\* currents and paths are the requests the caller resolves (none in the
\* groups that exercise the registry alone).
Scenario(defs, children, maxAdds, maxRemoves, names, params, currents, paths) ==
    [defs |-> defs, children |-> children, maxAdds |-> maxAdds,
     maxRemoves |-> maxRemoves, names |-> names, params |-> params,
     currents |-> currents, paths |-> paths]

RegistryScenario(defs, children) ==
    Scenario(defs, children, MaxAdds, MaxRemoves, {}, {}, {}, {})

ResolverScenario(defs, names, params, currents, paths) ==
    Scenario(defs, {}, MaxResolverAdds, MaxResolverRemoves, names, params, currents, paths)

Scenarios ==
    { RegistryScenario({1, 2, 3}, {}),
      RegistryScenario({1, 2, 5}, {}),
      RegistryScenario({6, 7}, {1}),
      RegistryScenario({4, 8}, {}),
      RegistryScenario({4}, {1, 2}),
      RegistryScenario({3, 9, 10}, {}),
      RegistryScenario({14}, {}),
      ResolverScenario({3, 9}, {"user", "opt", "ghost"},
                       {NoParams, Id42, Id42Zzz, X9}, {AtRoot, AtOpt, AtUser},
                       {<<"/", "users", "/", "42">>, <<"/", "o", "/", "7">>,
                        <<"/", "nowhere">>}),
      ResolverScenario({3, 13}, {"user", "num"}, {Id42, IdAbc}, {AtRoot},
                       {<<"/", "users", "/", "42", "/">>, <<"/", "USERS", "/", "42">>,
                        <<"/", "n", "/", "42">>, <<"/", "n", "/", "abc">>}),
      ResolverScenario({9}, {"opt"}, {Id42, Id42NoX}, {AtRoot},
                       {<<"/", "o", "/", "7", "/", "a", "%2F", "b">>,
                        <<"/", "o", "/", "7">>}),
      ResolverScenario({9, 10}, {"files"},
                       {NoParams, RestAB, RestString}, {AtRoot, AtFiles},
                       {<<"/", "f", "/", "a", "/", "b">>}),
      ResolverScenario({1, 2, 5}, {"a-home"}, {NoParams}, {AtRoot},
                       {<<"/", "a">>, <<"/", "a", "/", "b">>, <<"/", "a", "/", "42">>}),
      ResolverScenario({4, 8}, {"thing", "k"}, {NoParams}, {AtRoot, AtNew},
                       {<<"/", "old">>, <<"/", "new">>, <<"/", "m", "/", "k">>,
                        <<"/", "n", "/", "j">>}),
      ResolverScenario({12}, {}, {NoParams}, {AtRoot},
                       {<<"/", "v", "/", "k">>, <<"/", "w", "/", "k">>}),
      ResolverScenario({6, 11}, {"c", "s-t"}, {NoParams}, {AtRoot},
                       {<<"/", "s", "/", "t">>, <<"/", "p", "/", "g", "/", "c">>,
                        <<"/", "s">>}) }

ByName(name, hasParams, params) ==
    [name |-> name, hasPath |-> FALSE, path |-> << >>, hasParams |-> hasParams,
     params |-> params]

ByPath(path) ==
    [name |-> NoName, hasPath |-> TRUE, path |-> path, hasParams |-> FALSE,
     params |-> EmptyMap]

Relative(hasParams, params) ==
    [name |-> NoName, hasPath |-> FALSE, path |-> << >>, hasParams |-> hasParams,
     params |-> params]

\* The names the definitions of a group carry.
RECURSIVE namesOf(_)
namesOf(record) ==
    (IF record.name # NoName THEN {record.name} ELSE {})
    \cup UNION {namesOf(record.children[i]) : i \in DOMAIN record.children}

ScenarioNames(sc) ==
    UNION {namesOf(Catalogue[d]) : d \in sc.defs}
    \cup UNION {namesOf(ChildCatalogue[d]) : d \in sc.children}

\* ------------------------------------- web history (src/src/RouterView.ts)
\* A history location is a string, a sequence of lexemes as paths are; null
\* is the empty sequence.  A state entry and the data given to push and
\* replace are maps from field names to values; null is the empty map.
NoHistoryLocation == << >>

NoState == EmptyMap

NoData == EmptyMap

NoScroll == << >>

\* computeScrollPosition(): the offsets of the window, left and top.
computeScrollPosition == <<0, 0>>

\* normalizeBase(base) for createWebHistory("/app"): a base without "#".
base == <<"/", "app">>

StateFields == {"back", "current", "forward", "replaced", "position", "scroll"}

\* The place of the first lexeme of url that is one of marks, Len(url) + 1
\* when there is none.
firstOf(url, marks) ==
    IF \E i \in DOMAIN url : url[i] \in marks
    THEN CHOOSE i \in DOMAIN url : url[i] \in marks /\ \A j \in 1 .. (i - 1) : url[j] \notin marks
    ELSE Len(url) + 1

\* location.pathname, location.search and location.hash of a url
pathname(url) == SubSeq(url, 1, firstOf(url, {"?", "#"}) - 1)

search(url) == SubSeq(url, firstOf(url, {"?", "#"}), firstOf(url, {"#"}) - 1)

hash(url) == SubSeq(url, firstOf(url, {"#"}), Len(url))

\* stripBase(pathname, base): the path without the base it starts with (case
\* not compared), "/" when nothing is left.
stripBase(path, prefix) ==
    IF prefix = << >>
       \/ Len(path) < Len(prefix)
       \/ \E i \in DOMAIN prefix : lowerCase(path[i]) # lowerCase(prefix[i])
    THEN path
    ELSE IF Len(path) = Len(prefix) THEN <<"/">>
    ELSE SubSeq(path, Len(prefix) + 1, Len(path))

\* createCurrentLocation(base, location), base without "#"
createCurrentLocation(prefix, url) ==
    stripBase(pathname(url), prefix) \o search(url) \o hash(url)

\* The window: the entries of the session history (url, state and the
\* document the entry belongs to), the index of the current entry, the
\* current document and the number of documents made so far, the navigation
\* location.assign or location.replace has started (kind "none" when there is
\* none), the traversals history.go has queued, and whether popStateHandler and
\* beforeUnloadListener are registered on it.
Entry(url, state, doc) == [url |-> url, state |-> state, doc |-> doc]

NoNavigation == [kind |-> "none", url |-> << >>]

\* history.state
stateOf(w) == w.entries[w.index].state

\* history.length
lengthOf(w) == Len(w.entries)

\* history.pushState(state, '', url): the entries after the current one are
\* dropped and the new entry becomes the current one.
pushState(w, state, url) ==
    [w EXCEPT !.entries = Append(SubSeq(w.entries, 1, w.index), Entry(url, state, w.doc)),
              !.index = w.index + 1]

\* history.replaceState(state, '', url)
replaceState(w, state, url) ==
    [w EXCEPT !.entries[w.index] = Entry(url, state, w.doc)]

\* location.assign(url) and location.replace(url): the navigation starts; the
\* last one started is the one that happens.
locationAssign(w, url) == [w EXCEPT !.navigation = [kind |-> "assign", url |-> url]]

locationReplace(w, url) == [w EXCEPT !.navigation = [kind |-> "replace", url |-> url]]

\* history.go(delta): the traversal is queued.
historyGo(w, delta) == [w EXCEPT !.pending = Append(w.pending, delta)]

\* The history object and the window it works on: h.quota is the number of
\* pushState and replaceState calls that succeed before they throw; h.calls
\* are the listener invocations made.
History(w, location, state, callbacks, returned, paused, quota) ==
    [window |-> w, currentLocation |-> location, historyState |-> state,
     listeners |-> callbacks, teardowns |-> returned, pauseState |-> paused,
     quota |-> quota, calls |-> << >>]

\* buildState(back, current, forward, replaced, computeScroll)
buildState(w, back, current, forward, replaced, computeScroll) ==
    [back |-> back, current |-> current, forward |-> forward, replaced |-> replaced,
     position |-> lengthOf(w),
     scroll |-> IF computeScroll THEN computeScrollPosition ELSE NoScroll]

\* changeLocation(to, state, replace): createBaseLocation() is the origin,
\* which the url of an entry leaves out.
changeLocation(h, to, state, isReplace) ==
    LET url == base \o to IN
    IF h.quota > 0
    THEN [h EXCEPT !.window = IF isReplace THEN replaceState(h.window, state, url)
                              ELSE pushState(h.window, state, url),
                   !.historyState = state,
                   !.quota = h.quota - 1]
    ELSE [h EXCEPT !.window = IF isReplace THEN locationReplace(h.window, url)
                              ELSE locationAssign(h.window, url)]

\* A replace that lets data override the position.
replaceDataPosition(h, to, data) ==
    LET state == assign(assign(assign(assign(EmptyMap, stateOf(h.window)),
                                      buildState(h.window, h.historyState.back, to,
                                                 h.historyState.forward, TRUE, FALSE)),
                               [position |-> h.historyState.position]),
                        data)
    IN [changeLocation(h, to, state, TRUE) EXCEPT !.currentLocation = to]

\* replace(to, data)
replace(h, to, data) ==
    LET state == assign(assign(assign(assign(EmptyMap, stateOf(h.window)),
                                      buildState(h.window, h.historyState.back, to,
                                                 h.historyState.forward, TRUE, FALSE)),
                               data),
                        [position |-> h.historyState.position])
    IN [changeLocation(h, to, state, TRUE) EXCEPT !.currentLocation = to]

\* A push that leaves the entry it comes from as it is.
pushWithoutRewrite(h, to, data) ==
    LET currentState == assign(assign(EmptyMap, h.historyState), stateOf(h.window))
        state == assign(assign(assign(EmptyMap,
                                      buildState(h.window, h.currentLocation, to,
                                                 NoHistoryLocation, FALSE, FALSE)),
                               [position |-> currentState.position + 1]),
                        data)
    IN [changeLocation(h, to, state, FALSE) EXCEPT !.currentLocation = to]

\* push(to, data)
push(h, to, data) ==
    LET currentState == assign(assign(assign(EmptyMap, h.historyState), stateOf(h.window)),
                               [forward |-> to, scroll |-> computeScrollPosition])
        h1 == changeLocation(h, currentState.current, currentState, TRUE)
        state == assign(assign(assign(EmptyMap,
                                      buildState(h1.window, h1.currentLocation, to,
                                                 NoHistoryLocation, FALSE, FALSE)),
                               [position |-> currentState.position + 1]),
                        data)
    IN [changeLocation(h1, to, state, FALSE) EXCEPT !.currentLocation = to]

NavigationDirection(delta) ==
    IF delta # 0 THEN (IF delta > 0 THEN "forward" ELSE "back") ELSE "unknown"

\* listeners.forEach(listener => listener(currentLocation.value, from, info))
callListeners(h, from, delta) ==
    [h EXCEPT !.calls = [i \in DOMAIN h.listeners |->
                           [listener |-> h.listeners[i], to |-> h.currentLocation,
                            from |-> from, delta |-> delta, type |-> "pop",
                            direction |-> NavigationDirection(delta)]]]

\* popStateHandler({state}), the window at the entry the event is for
popStateHandler(h, state) ==
    LET to == createCurrentLocation(base, h.window.entries[h.window.index].url)
        from == h.currentLocation
        fromState == h.historyState
    IN IF state # NoState
       THEN LET h1 == [h EXCEPT !.currentLocation = to, !.historyState = state] IN
            IF h.pauseState # NoHistoryLocation /\ h.pauseState = from
            THEN [h1 EXCEPT !.pauseState = NoHistoryLocation]
            ELSE callListeners(h1, from,
                               IF fromState # NoState
                               THEN state.position - fromState.position ELSE 0)
       ELSE callListeners(replace(h, to, NoData), from, 0)

\* pauseListeners()
pauseListeners(h) == [h EXCEPT !.pauseState = h.currentLocation]

\* listen(callback); the teardown it returns closes over callback.
listen(h, callback) ==
    [h EXCEPT !.listeners = Append(h.listeners, callback),
              !.teardowns = Append(h.teardowns, callback)]

\* The teardown listen(callback) returned.
teardown(h, callback) ==
    LET index == IndexOf(h.listeners, callback) IN
    IF index > 0 THEN [h EXCEPT !.listeners = RemoveAt(h.listeners, index)] ELSE h

\* beforeUnloadListener()
beforeUnloadListener(h) ==
    IF stateOf(h.window) = NoState THEN h
    ELSE [h EXCEPT !.window.entries[h.window.index].state =
                       assign(assign(EmptyMap, stateOf(h.window)),
                              [scroll |-> computeScrollPosition])]

RECURSIVE teardownAll(_, _)
teardownAll(h, i) ==
    IF i > Len(h.teardowns) THEN h ELSE teardownAll(teardown(h, h.teardowns[i]), i + 1)

\* destroy()
destroy(h) ==
    [teardownAll(h, 1) EXCEPT !.teardowns = << >>, !.window.listening = FALSE]

\* go(delta, triggerListeners)
go(h, delta, triggerListeners) ==
    LET h1 == IF ~triggerListeners THEN pauseListeners(h) ELSE h IN
    [h1 EXCEPT !.window = historyGo(h1.window, delta)]

\* useHistoryStateNavigation(base): the location and the state of the current
\* entry, which gets a state when it has none.
useHistoryStateNavigation(w, quota) ==
    LET location == createCurrentLocation(base, w.entries[w.index].url)
        h == History(w, location, stateOf(w), << >>, << >>, NoHistoryLocation, quota)
    IN IF h.historyState = NoState
       THEN changeLocation(h, h.currentLocation,
                           [back |-> NoHistoryLocation, current |-> h.currentLocation,
                            forward |-> NoHistoryLocation, position |-> lengthOf(w) - 1,
                            replaced |-> TRUE, scroll |-> NoScroll],
                           TRUE)
       ELSE h

\* createWebHistory(base) in the document of the current entry
createWebHistory(w, quota) ==
    LET h == useHistoryStateNavigation(w, quota) IN
    [h EXCEPT !.window.listening = TRUE]

\* The document of the current entry goes away for the one the navigation
\* started or the traversal leads to: beforeunload is dispatched, the entry
\* of the navigation is made, and the script runs in the new document.
unload(h) == IF h.window.listening THEN beforeUnloadListener(h) ELSE h

navigated(w) ==
    LET entry == Entry(w.navigation.url, NoState, w.docs + 1)
        common == [w EXCEPT !.navigation = NoNavigation, !.pending = << >>,
                            !.doc = w.docs + 1, !.docs = w.docs + 1,
                            !.listening = FALSE]
    IN IF w.navigation.kind = "assign"
       THEN [common EXCEPT !.entries = Append(SubSeq(w.entries, 1, w.index), entry),
                           !.index = w.index + 1]
       ELSE [common EXCEPT !.entries[w.index] = entry]

\* The window of a tab opened at the base: one entry without a state.
FreshWindow ==
    [entries |-> << Entry(base \o <<"/">>, NoState, 1) >>, index |-> 1, doc |-> 1,
     docs |-> 1, navigation |-> NoNavigation, pending |-> << >>, listening |-> FALSE]

\* The calls of the behaviours.
HistoryLocations == {<<"/", "a">>, <<"/", "b">>}

Datas == {NoData, [position |-> 7], [forward |-> <<"/", "b">>]}

Deltas == {-2, -1, 1}

Callbacks == {1, 2}

\* What the calls of one behaviour are drawn from: the data given to push and
\* replace, whether pushState and replaceState may throw, the deltas and
\* triggerListeners given to go, the callbacks given to listen, whether the user
\* follows links to fragments, and the numbers of calls made.
Limits(navigations, goes, listens, teardownCalls) ==
    [navigations |-> navigations, goes |-> goes, listens |-> listens,
     teardowns |-> teardownCalls]

Plan(datas, throwing, deltas, triggers, callbackIds, fragments, limits) ==
    [datas |-> datas, throwing |-> throwing, deltas |-> deltas, triggers |-> triggers,
     callbacks |-> callbackIds, fragments |-> fragments, limits |-> limits]

Plans ==
    { Plan(Datas, FALSE, {-1, 1}, {TRUE}, {1}, FALSE,
           Limits(MaxNavigations, MaxGoes - 1, 1, 1)),
      Plan({NoData}, TRUE, {-1}, {TRUE}, {}, FALSE,
           Limits(MaxNavigations, MaxGoes - 1, 0, 1)),
      Plan({NoData}, FALSE, Deltas, BOOLEAN, {1}, FALSE,
           Limits(MaxNavigations, MaxGoes, 1, 0)),
      Plan({NoData}, FALSE, {}, {}, Callbacks, TRUE,
           Limits(MaxNavigations - 1, 0, MaxListens, MaxTeardowns)) }

\* ------------------------------------------------------------- RouterLink
\* The value of an attribute is a sequence of pieces of text, each all of word
\* characters (letters, digits, _) or all of other characters.
WordPieces == {"_blank", "_BLANK", "_self", "x", "null"}

\* getAttribute of an attribute that is not set: null, which RegExp.test reads
\* as the text null.
NoAttribute == <<"null">>

toLowerCase(piece) == IF piece = "_BLANK" THEN "_blank" ELSE piece

\* /\b_blank\b/i.test(target): _blank in any letter case, with no word character
\* next to it on either side.
testBlank(target) ==
    \E i \in DOMAIN target :
        /\ toLowerCase(target[i]) = "_blank"
        /\ (i = 1 \/ target[i - 1] \notin WordPieces)
        /\ (i = Len(target) \/ target[i + 1] \notin WordPieces)

\* e.button of an event that has none (undefined)
NoButton == -1

\* e.currentTarget: null, or an element by whether it has getAttribute and the
\* value of its target attribute.
NoCurrentTarget == [element |-> FALSE, getAttribute |-> FALSE, target |-> NoAttribute]

Element(hasGetAttribute, target) ==
    [element |-> TRUE, getAttribute |-> hasGetAttribute, target |-> target]

\* An event by what guardEvent reads of it; preventDefault is whether the event
\* has the method.
Event(metaKey, altKey, ctrlKey, shiftKey, defaultPrevented, button, currentTarget, preventDefault) ==
    [metaKey |-> metaKey, altKey |-> altKey, ctrlKey |-> ctrlKey, shiftKey |-> shiftKey,
     defaultPrevented |-> defaultPrevented, button |-> button,
     currentTarget |-> currentTarget, preventDefault |-> preventDefault]

\* guardEvent(e): what it returns (undefined is FALSE) and whether it called
\* e.preventDefault().
Guarded(returned, prevented) == [returned |-> returned, prevented |-> prevented]

\* guardEvent without the test of the button
guardEventAnyButton(e) ==
    IF e.metaKey \/ e.altKey \/ e.ctrlKey \/ e.shiftKey THEN Guarded(FALSE, FALSE)
    ELSE IF e.defaultPrevented THEN Guarded(FALSE, FALSE)
    ELSE IF /\ e.currentTarget.element /\ e.currentTarget.getAttribute
            /\ testBlank(e.currentTarget.target)
         THEN Guarded(FALSE, FALSE)
    ELSE Guarded(TRUE, e.preventDefault)

guardEvent(e) ==
    IF e.metaKey \/ e.altKey \/ e.ctrlKey \/ e.shiftKey THEN Guarded(FALSE, FALSE)
    ELSE IF e.defaultPrevented THEN Guarded(FALSE, FALSE)
    ELSE IF e.button # NoButton /\ e.button # 0 THEN Guarded(FALSE, FALSE)
    ELSE IF /\ e.currentTarget.element /\ e.currentTarget.getAttribute
            /\ testBlank(e.currentTarget.target)
         THEN Guarded(FALSE, FALSE)
    ELSE Guarded(TRUE, e.preventDefault)

\* A call of the router, and none.
RouterCall(method, to) == [method |-> method, to |-> to]

NoRouterCall == RouterCall("none", << >>)

\* promise.catch(noop) of a promise settling as outcome
catchNoop(outcome) == IF outcome = "rejected" THEN "fulfilled" ELSE outcome

\* navigate(e): the call of the router it makes, whether e.preventDefault() was
\* called, and the promise returned: Promise.resolve(), or the router's with
\* catch(noop), pending until the router's settles.
navigate(props, e) ==
    LET g == guardEvent(e) IN
    IF g.returned
    THEN [call |-> RouterCall(IF props.replace THEN "replace" ELSE "push", props.to),
          prevented |-> g.prevented, router |-> "pending", promise |-> "pending"]
    ELSE [call |-> NoRouterCall, prevented |-> g.prevented, router |-> "none",
          promise |-> "resolved"]

\* The events of the behaviours: at most one modifier key held.
Modifiers == {"none", "meta", "alt", "ctrl", "shift"}

Buttons == {NoButton, 0, 1, 2}

Targets ==
    {NoAttribute, <<"_blank">>, <<"_BLANK">>, <<"_self">>, <<"x", "_blank">>,
     <<"_blank", " ", "x">>}

CurrentTargets ==
    {NoCurrentTarget, Element(FALSE, NoAttribute)} \cup {Element(TRUE, t) : t \in Targets}

Events ==
    { Event(m = "meta", m = "alt", m = "ctrl", m = "shift", d, b, c, p) :
        m \in Modifiers, d \in BOOLEAN, b \in Buttons, c \in CurrentTargets,
        p \in BOOLEAN }

LinkProps == [to : HistoryLocations, replace : BOOLEAN]

\* ------------------------------------------------------------- RouterView
\* A matched record by whether it has a components collection; a route by its
\* matched.
Matched(components) == [components |-> components]

RECURSIVE MatchedOfLen(_)
MatchedOfLen(n) ==
    IF n = 0 THEN { << >> }
    ELSE { Append(m, Matched(c)) : m \in MatchedOfLen(n - 1), c \in BOOLEAN }

Routes == UNION { MatchedOfLen(n) : n \in 0..MaxMatched }

\* The route prop of a RouterView, and that of one that has none.
RouteProp(matched) == [present |-> TRUE, matched |-> matched]

NoRoute == [present |-> FALSE, matched |-> << >>]

\* The route props given to RouterViews.
RouteProps ==
    {NoRoute, RouteProp(<< Matched(FALSE), Matched(TRUE) >>),
     RouteProp(<< Matched(TRUE), Matched(FALSE), Matched(TRUE) >>)}

\* A RouterView: its route prop and the value of its computed depth.
RouterView(route, viewDepth) == [route |-> route, depth |-> viewDepth]

\* depth without the loop: the injected depth as it is
depthInjected(matched, initialDepth) == initialDepth

\* depth: from the injected depth, past the matched records without components
\* (matched is indexed from 0 in the source and from 1 here)
RECURSIVE depth(_, _)
depth(matched, initialDepth) ==
    IF initialDepth + 1 \in DOMAIN matched /\ ~matched[initialDepth + 1].components
    THEN depth(matched, initialDepth + 1)
    ELSE initialDepth

\* routeToDisplay of the i-th RouterView of the chain: props.route, or the route
\* injected: the one its parent provides, the router's at the root.
RECURSIVE routeToDisplay(_, _, _)
routeToDisplay(chain, route, i) ==
    IF chain[i].route.present THEN chain[i].route.matched
    ELSE IF i = 1 THEN route
    ELSE routeToDisplay(chain, route, i - 1)

\* The computed depths of a chain of RouterViews, outermost first, each
\* injected with the depth + 1 its parent provides, the root with 0.
RECURSIVE setup(_, _, _)
setup(chain, route, i) ==
    IF i > Len(chain) THEN chain
    ELSE LET injectedDepth == IF i = 1 THEN 0 ELSE chain[i - 1].depth + 1
             d == depth(routeToDisplay(chain, route, i), injectedDepth)
         IN  setup([chain EXCEPT ![i].depth = d], route, i + 1)

\* ----------------------------------------------------------- state machine
VARIABLES
    arena,       \* every record matcher created so far
    matchers,    \* the ordered sequence (getRoutes)
    matcherMap,  \* the name table (getRecordMatcher)
    callbacks,   \* the removal callbacks held by the caller: the matcher each closes
                 \* over and the identities its addRoute call created (from..to)
    adds,        \* number of addRoute calls made
    removes,     \* number of removals made
    scenario,    \* the group of definitions this behaviour draws from
    last,        \* the last call made and what it returned
    window,           \* the window of the web history
    currentLocation,  \* currentLocation.value
    historyState,     \* historyState.value
    listeners,        \* the callbacks registered, in order
    teardowns,        \* the teardowns made, each by the callback it closes over
    pauseState,       \* the location at the last pauseListeners(), or null
    handles,          \* the teardowns the caller holds, in the order of the listen
                      \* calls: the callback of each and whether it is still to be
                      \* called or destroy was
    plan,             \* what the calls of this behaviour are drawn from
    used,             \* the calls made so far, by kind, and the triggerListeners of
                      \* the go calls whose traversals are queued
    hlast,            \* the last history call or event and the listener calls it made
    linkProps,        \* the props of the link: to and replace
    clicks,           \* the navigate calls made on the link: the router call of each,
                      \* the router's promise and the promise returned
    clast,            \* the event of the last navigate call and whether
                      \* preventDefault was called on it
    injectedRoute,    \* the matched of the route the router provides
    views             \* the RouterViews mounted, each nested in the one before

registryVars == <<arena, matchers, matcherMap, callbacks, adds, removes, scenario, last>>

historyVars == <<window, currentLocation, historyState, listeners, teardowns, pauseState,
                 handles, plan, used, hlast>>

linkVars == <<linkProps, clicks, clast>>

viewVars == <<injectedRoute, views>>

renderVars == <<linkVars, viewVars>>

vars == <<registryVars, historyVars, renderVars>>

registry == [arena |-> arena, matchers |-> matchers, matcherMap |-> matcherMap]

NoLocation == ByPath(<< >>)

NoCurrent == [name |-> NoName, path |-> << >>, params |-> EmptyMap]

\* A call: op; the definition index; the name given or the name of the
\* definition; target, the matcher removed or the one the returned callback
\* closes over; previous, the matcher the name stood for before the call (for
\* a removal callback, the first matcher its addRoute call created); the
\* request; the result of resolve.
Call(op, def, name, target, previous, location, current, result) ==
    [op |-> op, def |-> def, name |-> name, target |-> target, previous |-> previous,
     location |-> location, current |-> current, result |-> result]

Before(name) == IF name = NoName THEN NoMatcher ELSE matcherMap[name]

NoResult == Thrown("none")

\* A history call or event: op; the location and data given; the delta and
\* triggerListeners given to go; the number of pushState and replaceState calls
\* that succeed; the event dispatched ("none", "popstate" or "load") and its
\* state; the listener calls made.
HistoryCall(op, to, data, delta, triggerListeners, quota, event, state, calls) ==
    [op |-> op, to |-> to, data |-> data, delta |-> delta,
     triggerListeners |-> triggerListeners, quota |-> quota, event |-> event,
     state |-> state, calls |-> calls]

SetHistory(h) ==
    /\ window' = h.window
    /\ currentLocation' = h.currentLocation
    /\ historyState' = h.historyState
    /\ listeners' = h.listeners
    /\ teardowns' = h.teardowns
    /\ pauseState' = h.pauseState

\* createWebHistory(base) in a fresh window
HistoryInit ==
    LET h == createWebHistory(FreshWindow, 1) IN
    /\ window = h.window
    /\ currentLocation = h.currentLocation
    /\ historyState = h.historyState
    /\ listeners = h.listeners
    /\ teardowns = h.teardowns
    /\ pauseState = h.pauseState
    /\ handles = << >>
    /\ used = [navigations |-> 0, goes |-> 0, listens |-> 0, teardowns |-> 0,
               queued |-> << >>]
    /\ hlast = HistoryCall("init", NoHistoryLocation, NoData, 0, TRUE, 1, "load", NoState,
                           << >>)

RegistryInit ==
    /\ arena = << >>
    /\ matchers = << >>
    /\ matcherMap = [n \in Names |-> NoMatcher]
    /\ callbacks = {}
    /\ adds = 0
    /\ removes = 0
    /\ scenario \in Scenarios
    /\ last = Call("init", 0, NoName, NoMatcher, NoMatcher, NoLocation, NoCurrent, NoResult)

\* A link on which navigate was not called yet.
LinkInit ==
    /\ linkProps \in LinkProps
    /\ clicks = << >>
    /\ clast = [event |-> Event(FALSE, FALSE, FALSE, FALSE, FALSE, NoButton,
                                NoCurrentTarget, FALSE),
                prevented |-> FALSE]

\* No RouterView mounted, the route the start location.
ViewInit ==
    /\ injectedRoute = << >>
    /\ views = << >>

RenderInit ==
    /\ LinkInit
    /\ linkProps = [to |-> <<"/", "a">>, replace |-> FALSE]
    /\ ViewInit

\* The registry alone, the history left as it is made.
Init ==
    /\ RegistryInit
    /\ HistoryInit
    /\ RenderInit
    /\ plan = Plan({}, FALSE, {}, {}, {}, FALSE, Limits(0, 0, 0, 0))

SetRegistry(st) ==
    /\ arena' = st.arena
    /\ matchers' = st.matchers
    /\ matcherMap' = st.matcherMap

\* addRoute(record)
AddRoute ==
    \E d \in scenario.defs :
        LET r == addRoute(registry, Catalogue[d], NoMatcher, NoMatcher) IN
        /\ adds < scenario.maxAdds
        /\ Len(r.st.arena) <= MaxMatchers
        /\ SetRegistry(r.st)
        /\ callbacks' = callbacks \cup {[matcher |-> r.originalMatcher,
                                          from |-> Len(arena) + 1,
                                          to |-> Len(r.st.arena)]}
        /\ adds' = adds + 1
        /\ last' = Call("addRoute", d, Catalogue[d].name, r.originalMatcher,
                        Before(Catalogue[d].name), NoLocation, NoCurrent, NoResult)
        /\ UNCHANGED <<removes, scenario>>
        /\ UNCHANGED <<historyVars, renderVars>>

\* addRoute(record, parent), parent taken from getRoutes()
AddChildRoute ==
    \E d \in scenario.children, parent \in Range(matchers) :
        LET r == addRoute(registry, ChildCatalogue[d], parent, NoMatcher) IN
        /\ adds < scenario.maxAdds
        /\ Len(r.st.arena) <= MaxMatchers
        /\ SetRegistry(r.st)
        /\ callbacks' = callbacks \cup {[matcher |-> r.originalMatcher,
                                          from |-> Len(arena) + 1,
                                          to |-> Len(r.st.arena)]}
        /\ adds' = adds + 1
        /\ last' = Call("addChildRoute", d, ChildCatalogue[d].name, r.originalMatcher,
                        Before(ChildCatalogue[d].name), NoLocation, NoCurrent, NoResult)
        /\ UNCHANGED <<removes, scenario>>
        /\ UNCHANGED <<historyVars, renderVars>>

\* removeRoute(name)
RemoveRouteByName ==
    \E name \in ScenarioNames(scenario) \cup {"ghost"} :
        /\ SetRegistry(removeRouteByName(registry, name))
        /\ last' = Call("removeRouteByName", 0, name, matcherMap[name], matcherMap[name],
                        NoLocation, NoCurrent, NoResult)
        /\ removes < scenario.maxRemoves
        /\ removes' = removes + 1
        /\ UNCHANGED <<callbacks, adds, scenario>>
        /\ UNCHANGED <<historyVars, renderVars>>

\* removeRoute(matcher), the matcher a reference the caller got from getRoutes()
\* at some time
RemoveRouteByMatcher ==
    \E m \in DOMAIN arena :
        /\ isInsertable(registry, m)
        /\ SetRegistry(removeRoute(registry, m))
        /\ last' = Call("removeRouteByMatcher", 0, NoName, m, NoMatcher,
                        NoLocation, NoCurrent, NoResult)
        /\ removes < scenario.maxRemoves
        /\ removes' = removes + 1
        /\ UNCHANGED <<callbacks, adds, scenario>>
        /\ UNCHANGED <<historyVars, renderVars>>

\* A callback that removes by the name of the definition instead of by the
\* matcher it closes over.
RemovalCallbackByName ==
    \E cb \in callbacks :
        /\ SetRegistry(IF cb.matcher # NoMatcher /\ arena[cb.matcher].record.name # NoName
                       THEN removeRouteByName(registry, arena[cb.matcher].record.name)
                       ELSE removeRoute(registry, cb.matcher))
        /\ last' = Call("removalCallback", 0, NoName, cb.matcher, cb.from,
                        NoLocation, NoCurrent, NoResult)
        /\ removes < scenario.maxRemoves
        /\ removes' = removes + 1
        /\ UNCHANGED <<callbacks, adds, scenario>>
        /\ UNCHANGED <<historyVars, renderVars>>

\* The callback addRoute returned: removeRoute(originalMatcher)
RemovalCallback ==
    \E cb \in callbacks :
        /\ SetRegistry(removeRoute(registry, cb.matcher))
        /\ last' = Call("removalCallback", 0, NoName, cb.matcher, cb.from,
                        NoLocation, NoCurrent, NoResult)
        /\ removes < scenario.maxRemoves
        /\ removes' = removes + 1
        /\ UNCHANGED <<callbacks, adds, scenario>>
        /\ UNCHANGED <<historyVars, renderVars>>

\* The behaviour is one of those that read the registry.
Reading == scenario.currents # {}

\* getRoutes(); the sequence returned is recorded in the matched field of the
\* result.
GetRoutes ==
    /\ Reading
    /\ last' = Call("getRoutes", 0, NoName, NoMatcher, NoMatcher, NoLocation, NoCurrent,
                    [NoResult EXCEPT !.matched = getRoutes(registry)])
    /\ UNCHANGED <<arena, matchers, matcherMap, callbacks, adds, removes, scenario>>
    /\ UNCHANGED <<historyVars, renderVars>>

\* getRecordMatcher(name); the matcher returned is recorded as the target.
GetRecordMatcher ==
    \E name \in ScenarioNames(scenario) \cup {"ghost"} :
        /\ Reading
        /\ last' = Call("getRecordMatcher", 0, name, getRecordMatcher(registry, name),
                        NoMatcher, NoLocation, NoCurrent, NoResult)
        /\ UNCHANGED <<arena, matchers, matcherMap, callbacks, adds, removes, scenario>>
        /\ UNCHANGED <<historyVars, renderVars>>

Locations(sc) ==
    {ByName(n, TRUE, ps) : n \in sc.names, ps \in sc.params}
    \cup {ByName(n, FALSE, EmptyMap) : n \in sc.names}
    \cup {ByPath(path) : path \in sc.paths}
    \cup {Relative(TRUE, ps) : ps \in sc.params}
    \cup {Relative(FALSE, EmptyMap) : n \in sc.names}

\* A resolve that takes the matcher it selected out of the ordered sequence.
ResolveConsuming ==
    \E location \in Locations(scenario), current \in scenario.currents :
        LET result == resolve(registry, location, current) IN
        /\ last' = Call("resolve", 0, location.name, NoMatcher, NoMatcher, location, current,
                        result)
        /\ arena' = arena
        /\ matchers' = IF result.matched = << >> THEN matchers
                       ELSE SelectSeq(matchers, LAMBDA m : m # Last(result.matched))
        /\ UNCHANGED <<matcherMap, callbacks, adds, removes, scenario>>
        /\ UNCHANGED <<historyVars, renderVars>>

\* resolve(location, currentLocation)
Resolve ==
    \E location \in Locations(scenario), current \in scenario.currents :
        LET result == resolve(registry, location, current) IN
        /\ last' = Call("resolve", 0, location.name, NoMatcher, NoMatcher, location, current,
                        result)
        /\ arena' = mergeMetaStore(registry, result.matched)
        /\ UNCHANGED <<matchers, matcherMap, callbacks, adds, removes, scenario>>
        /\ UNCHANGED <<historyVars, renderVars>>

Mutate == AddRoute \/ AddChildRoute \/ RemoveRouteByName \/ RemoveRouteByMatcher
          \/ RemovalCallback

Inspect == GetRoutes \/ GetRecordMatcher

Next == Mutate \/ Resolve \/ Inspect

Spec == Init /\ [][Next]_vars

\* ------------------------------------------------ web history state machine
Quotas(calls) == IF plan.throwing THEN 0 .. calls ELSE {calls}

\* The history object as it stands, its next quota pushState and replaceState
\* calls succeeding.
Current(quota) ==
    History(window, currentLocation, historyState, listeners, teardowns, pauseState, quota)

\* The document is there: no navigation away from it has started.
Running == window.navigation.kind = "none"

\* A pushState or replaceState that throws starts a navigation to a new
\* document.
Affordable(calls, quota) == quota < calls => window.docs < MaxDocuments

\* push(to, data)
Push ==
    \E to \in HistoryLocations, data \in plan.datas, quota \in Quotas(2) :
        /\ Running
        /\ used.navigations < plan.limits.navigations
        /\ window.index < MaxEntries
        /\ Affordable(2, quota)
        /\ SetHistory(push(Current(quota), to, data))
        /\ used' = [used EXCEPT !.navigations = @ + 1]
        /\ hlast' = HistoryCall("push", to, data, 0, TRUE, quota, "none", NoState, << >>)
        /\ UNCHANGED <<handles, plan>>
        /\ UNCHANGED <<registryVars, renderVars>>

\* replace(to, data)
Replace ==
    \E to \in HistoryLocations, data \in plan.datas, quota \in Quotas(1) :
        /\ Running
        /\ used.navigations < plan.limits.navigations
        /\ Affordable(1, quota)
        /\ SetHistory(replace(Current(quota), to, data))
        /\ used' = [used EXCEPT !.navigations = @ + 1]
        /\ hlast' = HistoryCall("replace", to, data, 0, TRUE, quota, "none", NoState, << >>)
        /\ UNCHANGED <<handles, plan>>
        /\ UNCHANGED <<registryVars, renderVars>>

\* go(delta, triggerListeners)
Go ==
    \E delta \in plan.deltas, triggerListeners \in plan.triggers :
        /\ Running
        /\ used.goes < plan.limits.goes
        /\ SetHistory(go(Current(0), delta, triggerListeners))
        /\ used' = [used EXCEPT !.goes = @ + 1,
                                !.queued = Append(@, triggerListeners)]
        /\ hlast' = HistoryCall("go", NoHistoryLocation, NoData, delta, triggerListeners, 0,
                                "none", NoState, << >>)
        /\ UNCHANGED <<handles, plan>>
        /\ UNCHANGED <<registryVars, renderVars>>

\* listen(callback)
Listen ==
    \E callback \in plan.callbacks :
        /\ Running
        /\ used.listens < plan.limits.listens
        /\ SetHistory(listen(Current(0), callback))
        /\ handles' = Append(handles, [callback |-> callback, live |-> TRUE])
        /\ used' = [used EXCEPT !.listens = @ + 1]
        /\ UNCHANGED plan
        /\ hlast' = HistoryCall("listen", NoHistoryLocation, NoData, callback, TRUE, 0,
                                "none", NoState, << >>)
        /\ UNCHANGED <<registryVars, renderVars>>

\* A teardown listen returned is called.
Teardown ==
    \E i \in DOMAIN handles :
        /\ Running
        /\ SetHistory(teardown(Current(0), handles[i].callback))
        /\ hlast' = HistoryCall("teardown", NoHistoryLocation, NoData, i, TRUE, 0,
                                "none", NoState, << >>)
        /\ used.teardowns < plan.limits.teardowns
        /\ used' = [used EXCEPT !.teardowns = @ + 1]
        /\ handles' = [handles EXCEPT ![i].live = FALSE]
        /\ UNCHANGED plan
        /\ UNCHANGED <<registryVars, renderVars>>

\* destroy()
Destroy ==
    /\ Running
    /\ SetHistory(destroy(Current(0)))
    /\ hlast' = HistoryCall("destroy", NoHistoryLocation, NoData, 0, TRUE, 0, "none", NoState,
                            << >>)
    /\ used.teardowns < plan.limits.teardowns
    /\ used' = [used EXCEPT !.teardowns = @ + 1]
    /\ handles' = [i \in DOMAIN handles |-> [handles[i] EXCEPT !.live = FALSE]]
    /\ UNCHANGED plan
    /\ UNCHANGED <<registryVars, renderVars>>

\* The window makes the traversal at the head of the queue.  Outside the
\* entries there is none and no event; to an entry of this document the
\* popstate event is dispatched with the state of the entry; to an entry of
\* another document that document is loaded and the script runs in it.
Traverse ==
    /\ Running
    /\ window.pending # << >>
    /\ LET delta == Head(window.pending)
           target == window.index + delta
           rest == [window EXCEPT !.pending = Tail(window.pending)]
       IN IF target \notin DOMAIN window.entries
          THEN /\ SetHistory([Current(0) EXCEPT !.window = rest])
               /\ hlast' = HistoryCall("traverse", NoHistoryLocation, NoData, delta,
                                       Head(used.queued), 0, "none", NoState, << >>)
               /\ used' = [used EXCEPT !.queued = Tail(@)]
               /\ UNCHANGED handles
          ELSE IF window.entries[target].doc # window.doc
          THEN LET left == unload(Current(1)).window
                   there == [left EXCEPT !.index = target, !.pending = << >>,
                                         !.doc = window.entries[target].doc,
                                         !.listening = FALSE]
               IN /\ SetHistory(createWebHistory(there, 1))
                  /\ hlast' = HistoryCall("traverse", NoHistoryLocation, NoData, delta,
                                          Head(used.queued), 1, "load", stateOf(there),
                                          << >>)
                  /\ used' = [used EXCEPT !.queued = << >>]
                  /\ handles' = << >>
          ELSE LET there == [rest EXCEPT !.index = target]
                   state == stateOf(there)
                   h == [Current(1) EXCEPT !.window = there]
                   after == IF window.listening THEN popStateHandler(h, state) ELSE h
               IN /\ SetHistory(after)
                  /\ hlast' = HistoryCall("traverse", NoHistoryLocation, NoData, delta,
                                          Head(used.queued), 1, "popstate", state,
                                          after.calls)
                  /\ used' = [used EXCEPT !.queued = Tail(@)]
                  /\ UNCHANGED handles
    /\ UNCHANGED plan
    /\ UNCHANGED <<registryVars, renderVars>>

\* The user follows a link to a fragment of the page: the window makes an
\* entry without a state for the url with the fragment and dispatches
\* popstate.
FragmentNavigation ==
    \E quota \in Quotas(1) :
        /\ Running
        /\ plan.fragments
        /\ used.navigations < plan.limits.navigations
        /\ window.index < MaxEntries
        /\ hash(window.entries[window.index].url) = << >>
        /\ quota = 0 => (window.listening /\ window.docs < MaxDocuments)
        /\ LET url == window.entries[window.index].url \o <<"#", "x">>
               h == [Current(quota) EXCEPT !.window = pushState(window, NoState, url)]
               after == IF window.listening THEN popStateHandler(h, NoState) ELSE h
           IN /\ SetHistory(after)
              /\ hlast' = HistoryCall("fragment", NoHistoryLocation, NoData, 0, TRUE, quota,
                                      "popstate", NoState, after.calls)
        /\ used' = [used EXCEPT !.navigations = @ + 1]
        /\ UNCHANGED <<handles, plan>>
        /\ UNCHANGED <<registryVars, renderVars>>

\* The navigation location.assign or location.replace started happens: the
\* document is unloaded and the script runs in the new one.
Load ==
    /\ ~Running
    /\ SetHistory(createWebHistory(navigated(unload(Current(1)).window), 1))
    /\ handles' = << >>
    /\ hlast' = HistoryCall("load", NoHistoryLocation, NoData, 0, TRUE, 1, "load", NoState,
                            << >>)
    /\ used' = [used EXCEPT !.queued = << >>]
    /\ UNCHANGED plan
    /\ UNCHANGED <<registryVars, renderVars>>

HistoryNext ==
    Push \/ Replace \/ Go \/ Traverse \/ FragmentNavigation \/ Load \/ Listen \/ Teardown
    \/ Destroy

\* The history alone, the registry left as it is made.
InitHistory ==
    /\ RegistryInit
    /\ scenario = RegistryScenario({1, 2, 3}, {})
    /\ HistoryInit
    /\ plan \in Plans
    /\ RenderInit

HistorySpec == InitHistory /\ [][HistoryNext]_vars

\* --- RouterLink: the actions
\* link.navigate(e)
Navigate ==
    /\ Len(clicks) < MaxClicks
    /\ \E e \in Events :
        LET n == navigate(linkProps, e) IN
        /\ clicks' = Append(clicks, [call |-> n.call, router |-> n.router,
                                     promise |-> n.promise])
        /\ clast' = [event |-> e, prevented |-> n.prevented]
    /\ UNCHANGED <<registryVars, historyVars, viewVars, linkProps>>

\* The promise of a router call settles, and with it the promise navigate
\* returned.
Settle ==
    /\ \E i \in DOMAIN clicks, outcome \in {"fulfilled", "rejected"} :
        /\ clicks[i].router = "pending"
        /\ clicks' = [clicks EXCEPT ![i].router = outcome,
                                    ![i].promise = catchNoop(outcome)]
    /\ UNCHANGED <<registryVars, historyVars, viewVars, linkProps, clast>>

LinkNext == Navigate \/ Settle

\* The link alone.
InitLink ==
    /\ RegistryInit
    /\ scenario = RegistryScenario({1, 2, 3}, {})
    /\ HistoryInit
    /\ plan = Plan({}, FALSE, {}, {}, {}, FALSE, Limits(0, 0, 0, 0))
    /\ LinkInit
    /\ ViewInit

LinkSpec == InitLink /\ [][LinkNext]_vars

\* --- RouterView: the actions
\* setup of a RouterView nested in the innermost one
Setup ==
    /\ Len(views) < MaxViews
    /\ \E route \in RouteProps :
        views' = setup(Append(views, RouterView(route, 0)), injectedRoute, 1)
    /\ UNCHANGED <<registryVars, historyVars, linkVars, injectedRoute>>

\* The router's current route changes: the computed depths follow.
RouteChange ==
    /\ \E route \in Routes :
        /\ route # injectedRoute
        /\ injectedRoute' = route
        /\ views' = setup(views, route, 1)
    /\ UNCHANGED <<registryVars, historyVars, linkVars>>

ViewNext == Setup \/ RouteChange

\* The RouterViews alone.
InitView ==
    /\ RegistryInit
    /\ scenario = RegistryScenario({1, 2, 3}, {})
    /\ HistoryInit
    /\ plan = Plan({}, FALSE, {}, {}, {}, FALSE, Limits(0, 0, 0, 0))
    /\ RenderInit

ViewSpec == InitView /\ [][ViewNext]_vars

\* ------------------------------------------------------------ properties
InSequence(m) == m \in Range(matchers)

InNameTable(m) == \E n \in Names : matcherMap[n] = m

NameOf(m) == arena[m].record.name

PathOf(m) == arena[m].record.path

\* m is root or was created below it (parent links).
RECURSIVE IsUnder(_, _)
IsUnder(m, root) ==
    IF m = NoMatcher THEN FALSE
    ELSE IF m = root THEN TRUE
    ELSE IsUnder(arena[m].parent, root)

Descendants(root) == {m \in DOMAIN arena : IsUnder(m, root)}

\* root, its descendants, and the aliases of any of them.
Subtree(root) ==
    Descendants(root)
    \cup {m \in DOMAIN arena : arena[m].record.aliasOf \in Descendants(root)}

\* Neither in the ordered sequence nor reachable by its name.
Gone(m) ==
    /\ ~InSequence(m)
    /\ ~InNameTable(m)
    /\ NameOf(m) # NoName => matcherMap[NameOf(m)] = NoMatcher

Selected(result) == IF result.matched = << >> THEN NoMatcher ELSE Last(result.matched)

\* C1: after removeRoute(name) of a registered parent, every matcher created as
\* a descendant of that parent and every alias of the parent or of a
\* descendant is absent from the ordered sequence, the names they carried are
\* absent from the name table, and resolving any of those names fails with
\* MATCHER_NOT_FOUND.
C1_CascadeRemoval ==
    (last.op = "removeRouteByName" /\ last.target # NoMatcher) =>
        \A m \in Subtree(last.target) :
            /\ Gone(m)
            /\ NameOf(m) # NoName =>
                 resolve(registry, ByName(NameOf(m), FALSE, EmptyMap), AtRoot).error
                     = "MATCHER_NOT_FOUND"

\* C2: once the callback returned by addRoute has been invoked, none of the
\* matchers that addRoute call created is in the ordered sequence or the name
\* table.
C2_CallbackRemovesAll ==
    last.op = "removalCallback" =>
        \A cb \in callbacks :
            (cb.matcher = last.target /\ cb.from = last.previous) =>
                \A m \in cb.from .. cb.to : ~InSequence(m) /\ ~InNameTable(m)

\* C3: after addRoute(A) then addRoute(B), two top-level definitions of the
\* same name, the name stands for B's canonical matcher and no matcher of A's
\* subtree remains in the ordered sequence.
C3_NameOverride ==
    (/\ last.op = "addRoute"
     /\ last.previous # NoMatcher
     /\ arena[last.previous].parent = NoMatcher) =>
        /\ matcherMap[last.name] = last.target
        /\ \A m \in Subtree(last.previous) : ~InSequence(m)

StaticPath == <<"/", "a", "/", "b">>

DynamicPath == <<"/", "a", "/", ":", "id">>

BothRegistered ==
    /\ \E m \in Range(matchers) : PathOf(m) = StaticPath
    /\ \E m \in Range(matchers) : PathOf(m) = DynamicPath

\* C4: with the static pattern /a/b and the dynamic pattern /a/:id both
\* registered, resolving the path /a/b selects a matcher of the static
\* pattern, whatever the order of the insertions and after removals and
\* re-additions.
C4_StaticBeatsDynamic ==
    BothRegistered =>
        LET result == resolve(registry, ByPath(StaticPath), AtRoot)
        IN /\ result.error = ""
           /\ Selected(result) # NoMatcher
           /\ PathOf(Selected(result)) = StaticPath

\* The dynamic pattern was inserted first, and the static one was removed and
\* added again.
C4_Witness ==
    /\ BothRegistered
    /\ last.op = "addRoute"
    /\ removes > 0
    /\ adds = 3
    /\ \E i, j \in DOMAIN matchers :
          /\ PathOf(matchers[i]) = StaticPath
          /\ PathOf(matchers[j]) = DynamicPath
          /\ matchers[j] < matchers[i]

C6_NameTableCanonical ==
    \A n \in Names :
        matcherMap[n] # NoMatcher =>
            /\ ~isAliasRecord(registry, matcherMap[n])
            /\ LET result == resolve(registry, ByName(n, TRUE, Id42), AtRoot)
               IN result.error = "" =>
                    /\ Selected(result) = matcherMap[n]
                    /\ arena[Selected(result)].record.aliasOf = NoMatcher

\* An alias and a child created under an alias parent are in the ordered
\* sequence while their names stand for the canonical matchers.
C6_Witness ==
    \E a, c \in Range(matchers) :
        /\ arena[a].record.aliasOf # NoMatcher
        /\ arena[a].parent = NoMatcher
        /\ NameOf(a) # NoName
        /\ matcherMap[NameOf(a)] = arena[a].record.aliasOf
        /\ arena[c].parent = a
        /\ NameOf(c) # NoName
        /\ matcherMap[NameOf(c)] # NoMatcher
        /\ matcherMap[NameOf(c)] # c

\* A call of resolve with a name has just returned.
ResolvedByName == last.op = "resolve" /\ last.location.name # NoName

\* The step is a call of resolve with a name.
ResolvesByName == last'.op = "resolve" /\ last'.location.name # NoName

RegistryUnchanged == arena' = arena /\ matchers' = matchers /\ matcherMap' = matcherMap

\* C7: resolving a name that is not in the name table fails with
\* MATCHER_NOT_FOUND, returns no location and leaves the registry unchanged.
C7_UnknownNameFails ==
    [][(ResolvesByName /\ matcherMap[last'.location.name] = NoMatcher) =>
          (last'.result = Thrown("MATCHER_NOT_FOUND") /\ RegistryUnchanged)]_vars

\* The name was registered and has been removed.
C7_Witness ==
    /\ ResolvedByName
    /\ last.location.name = "user"
    /\ \E m \in DOMAIN arena : NameOf(m) = "user"
    /\ matcherMap["user"] = NoMatcher
    /\ last.result.error = "MATCHER_NOT_FOUND"

DeclaredNames(m) == Range(keyNames(matcherKeys(registry, m)))

\* C8: every key of the params a successful by-name resolution returns is a
\* parameter the target's pattern declares.
C8_OnlyDeclaredParams ==
    (ResolvedByName /\ last.result.error = "") =>
        DOMAIN last.result.params \subseteq DeclaredNames(matcherMap[last.location.name])

\* The request and the current location both carry a key the target does not
\* declare.
C8_Witness ==
    /\ ResolvedByName
    /\ last.result.error = ""
    /\ last.location.name = "user"
    /\ "zzz" \in DOMAIN last.location.params
    /\ "x" \in DOMAIN last.current.params
    /\ DOMAIN last.result.params = {"id"}

Supplied(location) == IF location.hasParams THEN location.params ELSE EmptyMap

\* C9: for each parameter the target declares, the result holds the supplied
\* value when the request supplies it, else the current location's value when
\* the parameter is not optional and the current location has it, else nothing;
\* /users/:id resolved with id 42 gives params {id: 42} and path /users/42.
C9_MergeOrder ==
    (ResolvedByName /\ last.result.error = "") =>
        LET m == matcherMap[last.location.name]
            keys == matcherKeys(registry, m)
            supplied == Supplied(last.location)
            current == last.current.params
            params == last.result.params
        IN /\ \A i \in DOMAIN keys :
                LET k == keys[i].name IN
                IF k \in DOMAIN supplied
                THEN k \in DOMAIN params /\ params[k] = supplied[k]
                ELSE IF ~keys[i].optional /\ k \in DOMAIN current
                THEN k \in DOMAIN params /\ params[k] = current[k]
                ELSE k \notin DOMAIN params
           /\ (last.location.name = "user" /\ "id" \in DOMAIN supplied
               /\ supplied["id"] = Str("42")) =>
                 /\ params = ("id" :> Str("42"))
                 /\ last.result.path = <<"/", "users", "/", "42">>

\* The supplied id overrides the id of the current location, whose optional x
\* is not carried over.
C9_Witness ==
    /\ ResolvedByName
    /\ last.location.name = "user"
    /\ last.location.params = Id42
    /\ last.current = AtOpt
    /\ last.result.error = ""
    /\ last.result.path = <<"/", "users", "/", "42">>

\* After the merge a required parameter of m is missing, or the value of a
\* repeatable parameter is not a sequence.
CannotStringify(m, location, current) ==
    LET keys == matcherKeys(registry, m)
        supplied == Supplied(location)
    IN \E i \in DOMAIN keys :
          LET k == keys[i].name IN
          \/ /\ ~keys[i].optional
             /\ k \notin DOMAIN supplied
             /\ k \notin DOMAIN current.params
          \/ /\ keys[i].repeatable
             /\ IF k \in DOMAIN supplied THEN ~supplied[k].isArray
                ELSE ~keys[i].optional /\ k \in DOMAIN current.params
                     /\ ~current.params[k].isArray

\* C10: a by-name resolution whose merged parameters miss a required parameter,
\* or give a repeatable parameter a value that is not a sequence, fails with the
\* stringify error, returns no location and leaves the registry unchanged.
C10_StringifyFails ==
    [][(/\ ResolvesByName
        /\ matcherMap[last'.location.name] # NoMatcher
        /\ CannotStringify(matcherMap[last'.location.name], last'.location, last'.current)) =>
          (last'.result = Thrown("STRINGIFY") /\ RegistryUnchanged)]_vars

\* A string was supplied for the repeatable parameter of /f/:rest+.
C10_Witness ==
    /\ ResolvedByName
    /\ last.location.name = "files"
    /\ last.location.params = RestString
    /\ matcherMap["files"] # NoMatcher
    /\ last.result.error = "STRINGIFY"

\* A call of resolve with a literal path (and no name) has just returned.
ResolvedByPath ==
    last.op = "resolve" /\ last.location.name = NoName /\ last.location.hasPath

\* The expression of m matches the path.
Matches(m, path) == parserTest(PathOf(m), path)

\* C11: a literal-path resolution selects the matcher at the smallest index of
\* the ordered sequence whose expression matches the path; the params are that
\* matcher's parse of the path, the name is its record's name and the path is
\* the input path.
C11_FirstMatchWins ==
    ResolvedByPath =>
        \A i \in DOMAIN matchers :
            (/\ Matches(matchers[i], last.location.path)
             /\ \A j \in 1 .. (i - 1) : ~Matches(matchers[j], last.location.path)) =>
                /\ last.result.error = ""
                /\ Selected(last.result) = matchers[i]
                /\ last.result.params
                     = parserParse(PathOf(matchers[i]), last.location.path).params
                /\ last.result.name = NameOf(matchers[i])
                /\ last.result.path = last.location.path

\* /a/b was resolved while two matchers of different patterns match it, and
\* the earlier one was selected.
C11_Witness ==
    /\ ResolvedByPath
    /\ last.location.path = <<"/", "a", "/", "b">>
    /\ \E i, j \in DOMAIN matchers :
          /\ i < j
          /\ Matches(matchers[i], last.location.path)
          /\ Matches(matchers[j], last.location.path)
          /\ PathOf(matchers[i]) # PathOf(matchers[j])
          /\ Selected(last.result) = matchers[i]

\* C12: a literal-path resolution of a path no matcher of the ordered sequence
\* matches (the sequence may be empty) does not fail: it returns the input
\* path, empty params, an empty matched sequence, empty meta and no name.
C12_NoMatchIsEmpty ==
    (ResolvedByPath /\ \A m \in Range(matchers) : ~Matches(m, last.location.path)) =>
        last.result = [error |-> "", name |-> NoName, path |-> last.location.path,
                       params |-> EmptyMap, matched |-> << >>, meta |-> EmptyMap]

\* /users/42 was resolved after the route that matched it was removed, other
\* routes being registered.
C12_Witness ==
    /\ ResolvedByPath
    /\ last.location.path = <<"/", "users", "/", "42">>
    /\ matchers # << >>
    /\ \E m \in DOMAIN arena : NameOf(m) = "user"
    /\ matcherMap["user"] = NoMatcher
    /\ last.result.error = ""
    /\ last.result.matched = << >>

\* A call of resolve with neither a name nor a path has just returned.
ResolvedRelative ==
    last.op = "resolve" /\ last.location.name = NoName /\ ~last.location.hasPath

\* The first matcher of the ordered sequence whose expression matches the path.
FirstMatching(path) ==
    IF \E i \in DOMAIN matchers : Matches(matchers[i], path)
    THEN matchers[CHOOSE i \in DOMAIN matchers :
                     /\ Matches(matchers[i], path)
                     /\ \A j \in 1 .. (i - 1) : ~Matches(matchers[j], path)]
    ELSE NoMatcher

\* The matcher of the current location: by its name if it has one, else by
\* matching its path again.
CurrentMatcher(current) ==
    IF current.name # NoName THEN matcherMap[current.name] ELSE FirstMatching(current.path)

\* The current params overridden key by key by the supplied params.
Overridden(current, supplied) ==
    [k \in DOMAIN current \cup DOMAIN supplied |->
        IF k \in DOMAIN supplied THEN supplied[k] ELSE current[k]]

\* C13 as stated: a relative resolution fails with MATCHER_NOT_FOUND exactly
\* when the current location cannot be matched again, and in every other case
\* returns the current params overridden by the supplied ones, with the path
\* stringify gives for them.
C13_RelativeAlwaysReturns ==
    ResolvedRelative =>
        LET m == CurrentMatcher(last.current)
            merged == Overridden(last.current.params, Supplied(last.location))
        IN IF m = NoMatcher THEN last.result = Thrown("MATCHER_NOT_FOUND")
           ELSE /\ last.result.error = ""
                /\ last.result.params = merged
                /\ last.result.path = parserStringify(PathOf(m), merged).path

\* C13 (amended): a relative resolution fails with MATCHER_NOT_FOUND exactly
\* when the current location cannot be matched again (by its name if it has
\* one, else by its path); otherwise, when stringify accepts the current
\* params overridden by the supplied ones, it returns those params, the path
\* stringify gives for them and the matcher of the current location, and when
\* stringify rejects them the call fails with the stringify error.
C13_Relative ==
    ResolvedRelative =>
        LET m == CurrentMatcher(last.current)
            merged == Overridden(last.current.params, Supplied(last.location))
            path == parserStringify(PathOf(m), merged)
        IN IF m = NoMatcher THEN last.result = Thrown("MATCHER_NOT_FOUND")
           ELSE IF path.failed THEN last.result = Thrown("STRINGIFY")
           ELSE /\ last.result.error = ""
                /\ last.result.params = merged
                /\ last.result.path = path.path
                /\ Selected(last.result) = m

\* The current location has no name and is found again by its path; the
\* supplied id replaces the current one in the params and in the path.
C13_Witness ==
    /\ ResolvedRelative
    /\ last.current = AtUser
    /\ last.location.hasParams
    /\ last.location.params = Id42Zzz
    /\ last.result.error = ""
    /\ last.result.params = Id42Zzz
    /\ last.result.path = <<"/", "users", "/", "42">>

\* The matcher a resolve call aims at: the one the name stands for, the first
\* one matching the path, or the one of the current location.
Target(location, current) ==
    IF location.name # NoName THEN matcherMap[location.name]
    ELSE IF location.hasPath THEN FirstMatching(location.path)
    ELSE CurrentMatcher(current)

\* The number of ancestors of m.
RECURSIVE Depth(_)
Depth(m) == IF arena[m].parent = NoMatcher THEN 0 ELSE 1 + Depth(arena[m].parent)

\* C14: the matched sequence of a successful resolution that selects a matcher
\* m is the parent chain of m, root first: its last element is m's record,
\* each element is the record of the parent of the next one's matcher, the
\* first one's matcher has no parent, and the length is the depth of m plus
\* one, so ancestors that are not in the ordered sequence are included.
C14_MatchedIsParentChain ==
    (last.op = "resolve" /\ last.result.error = ""
     /\ Target(last.location, last.current) # NoMatcher) =>
        LET m == Target(last.location, last.current)
            matched == last.result.matched
        IN /\ matched # << >>
           /\ Last(matched) = m
           /\ \A i \in 1 .. (Len(matched) - 1) : matched[i] = arena[matched[i + 1]].parent
           /\ arena[matched[1]].parent = NoMatcher
           /\ Len(matched) = Depth(m) + 1

\* /p/g/c was resolved: the chain has three records and the middle one, the
\* group /p/g, is not in the ordered sequence.
C14_Witness ==
    /\ ResolvedByPath
    /\ last.location.path = <<"/", "p", "/", "g", "/", "c">>
    /\ last.result.error = ""
    /\ Len(last.result.matched) = 3
    /\ ~InSequence(last.result.matched[2])
    /\ InSequence(last.result.matched[1])
    /\ NameOf(last.result.matched[3]) = "c"

MetaOf(m) == arena[m].record.meta

\* The positions of the chain whose record defines the meta key k.
Defining(matched, k) == {i \in DOMAIN matched : k \in DOMAIN MetaOf(matched[i])}

Max(S) == CHOOSE x \in S : \A y \in S : y <= x

\* C15: the meta a successful resolution returns has exactly the keys the
\* records of the matched chain define, each with the value of the deepest
\* record of the chain that defines it, and the call changes no record's meta.
C15_MetaFold ==
    [][(last'.op = "resolve" /\ last'.result.error = "") =>
          LET matched == last'.result.matched
              meta == last'.result.meta
          IN /\ DOMAIN meta = UNION {DOMAIN MetaOf(matched[i]) : i \in DOMAIN matched}
             /\ \A k \in DOMAIN meta :
                   meta[k] = MetaOf(matched[Max(Defining(matched, k))])[k]
             /\ \A m \in DOMAIN arena : arena'[m].record.meta = MetaOf(m)]_vars

\* /s/t was resolved: the key t defined by both records has the child's
\* value, the keys defined by one of them are kept, and the parent's own
\* meta still has its value of t.
C15_Witness ==
    /\ ResolvedByPath
    /\ last.location.path = <<"/", "s", "/", "t">>
    /\ Len(last.result.matched) = 2
    /\ last.result.meta = ("t" :> 2) @@ ("u" :> 1) @@ ("s" :> 1)
    /\ MetaOf(last.result.matched[1]) = ("t" :> 1) @@ ("s" :> 1)

\* The canonical record a record denotes: its aliasOf target, or itself.
Canon(m) == IF arena[m].record.aliasOf # NoMatcher THEN arena[m].record.aliasOf ELSE m

\* Two records with the same fields apart from path and aliasOf; components
\* are compared by the identity of the collection.
SameButPath(x, y) ==
    /\ arena[x].record.name = arena[y].record.name
    /\ arena[x].record.meta = arena[y].record.meta
    /\ arena[x].record.redirect = arena[y].record.redirect
    /\ arena[x].record.children = arena[y].record.children
    /\ arena[x].record.components = arena[y].record.components

\* The chains have the same length and denote the same canonical records.
SameCanonicalChain(aliasSide, canonicalSide) ==
    /\ Len(aliasSide) = Len(canonicalSide)
    /\ \A i \in DOMAIN aliasSide :
          i \in DOMAIN canonicalSide => Canon(aliasSide[i]) = Canon(canonicalSide[i])

\* The matched chains of the path of the alias record a and of the path of
\* the canonical record it denotes.
AliasSide(a) == resolve(registry, ByPath(PathOf(a)), AtRoot).matched

CanonicalSide(a) == resolve(registry, ByPath(PathOf(Canon(a))), AtRoot).matched

\* a is an alias record (of a top-level definition, of a nested one, or a
\* child created under an alias parent) and the two paths select a and the
\* canonical record a denotes.
AliasPair(a) ==
    /\ arena[a].record.aliasOf # NoMatcher
    /\ AliasSide(a) # << >> /\ Last(AliasSide(a)) = a
    /\ CanonicalSide(a) # << >> /\ Last(CanonicalSide(a)) = Canon(a)

\* C16: for every alias record a, the matched chain of a path matched by a
\* and the matched chain of the corresponding canonical path have the same
\* length and their records denote, depth by depth, the same canonical record,
\* share the same view collection by reference and differ only in path.
C16_AliasEquivalence ==
    \A a \in Range(matchers) :
        AliasPair(a) =>
            /\ SameCanonicalChain(AliasSide(a), CanonicalSide(a))
            /\ \A i \in DOMAIN AliasSide(a) :
                  i \in DOMAIN CanonicalSide(a) =>
                     SameButPath(AliasSide(a)[i], CanonicalSide(a)[i])

PassThrough(m) ==
    /\ arena[m].record.components.slots = {}
    /\ NameOf(m) = NoName
    /\ arena[m].record.redirect = NoName

\* The group /a of the definition {path: /a, children: ['' a-home, 'b' a-b]}.
GroupOfA(m) == PassThrough(m) /\ PathOf(m) = <<"/", "a">> /\ arena[m].parent = NoMatcher

\* C18: a matcher whose record has no view slots, no name and no redirect is
\* in neither the ordered sequence nor the name table and is the target of no
\* resolve; its children are registered and have it in their matched chain:
\* once /a with children '' (a-home) and b (a-b) is added, a-home and a-b are
\* in the sequence and the literal path /a resolves to a chain of length 2
\* whose first record is the group and whose leaf is a-home.
C18_GroupSkipped ==
    /\ \A m \in DOMAIN arena :
          PassThrough(m) =>
             /\ ~InSequence(m)
             /\ ~InNameTable(m)
             /\ last.op = "resolve" => Selected(last.result) # m
    /\ (last.op = "addRoute" /\ GroupOfA(last.target)) =>
          /\ \A c \in DOMAIN arena : arena[c].parent = last.target => InSequence(c)
          /\ matcherMap["a-home"] # NoMatcher /\ matcherMap["a-b"] # NoMatcher
    /\ (ResolvedByPath /\ last.location.path = <<"/", "a">>
        /\ matcherMap["a-home"] # NoMatcher) =>
          /\ Len(last.result.matched) = 2
          /\ GroupOfA(last.result.matched[1])
          /\ last.result.name = "a-home"
          /\ NameOf(last.result.matched[2]) = "a-home"

\* /a was resolved with the group registered: the chain is the group, which
\* is not in the sequence, then a-home.
C18_Witness ==
    /\ ResolvedByPath
    /\ last.location.path = <<"/", "a">>
    /\ Len(last.result.matched) = 2
    /\ GroupOfA(last.result.matched[1])
    /\ ~InSequence(last.result.matched[1])
    /\ last.result.name = "a-home"

\* The registry after the step.
registryNext == [arena |-> arena', matchers |-> matchers', matcherMap |-> matcherMap']

\* The step is a call of addRoute; Added is the definition it was given and
\* Created the matchers it made.
Adds == last'.op \in {"addRoute", "addChildRoute"}

Added == IF last'.op = "addRoute" THEN Catalogue[last'.def] ELSE ChildCatalogue[last'.def]

Created == (Len(arena) + 1) .. Len(arena')

\* The matchers a call of addRoute with this definition replaces: those its
\* names stood for before the call, with their subtrees.
Replaced(record) ==
    UNION {Subtree(matcherMap[n]) : n \in {x \in namesOf(record) : matcherMap[x] # NoMatcher}}

RemovesByMatcher == last'.op \in {"removeRouteByMatcher", "removalCallback"}

SameSequenceAndTable(st) == st.matchers = matchers' /\ st.matcherMap = matcherMap'

\* C20: removeRoute(name) of a name that is not in the name table, and
\* removeRoute(matcher) of a matcher that is not in the ordered sequence,
\* leave the sequence and the name table as they are; and after any removal,
\* removing the same target again changes neither.
C20_RemoveAbsentIsNoop ==
    [][/\ (last'.op = "removeRouteByName" /\ matcherMap[last'.name] = NoMatcher) =>
            (matchers' = matchers /\ matcherMap' = matcherMap)
       /\ (RemovesByMatcher /\ last'.target \notin Range(matchers)) =>
            (matchers' = matchers /\ matcherMap' = matcherMap)
       /\ last'.op = "removeRouteByName" =>
            SameSequenceAndTable(removeRouteByName(registryNext, last'.name))
       /\ (RemovesByMatcher /\ last'.target # NoMatcher) =>
            SameSequenceAndTable(removeRoute(registryNext, last'.target))]_vars

\* A name that was registered and removed is removed a second time while
\* other routes are registered.
C20_Witness ==
    /\ last.op = "removeRouteByName"
    /\ last.target = NoMatcher
    /\ \E m \in DOMAIN arena : NameOf(m) = last.name
    /\ removes = 2
    /\ matchers # << >>

\* The step is a call of resolve, getRoutes or getRecordMatcher.
Reads == last'.op \in {"resolve", "getRoutes", "getRecordMatcher"}

NonEmpty(params) ==
    [k \in {x \in DOMAIN params : params[x].v # << >>} |-> params[k]]

\* parse of the path a by-name resolution produced gives back its params.
ParsesBack ==
    LET back == parserParse(PathOf(matcherMap[last.location.name]), last.result.path)
    IN back.matched /\ back.params = NonEmpty(last.result.params)

\* stringify of the params a literal-path resolution parsed gives back the
\* path.
StringifiesBack ==
    parserStringify(PathOf(Selected(last.result)), last.result.params)
        = [failed |-> FALSE, path |-> last.location.path]

ValuesFit(pattern, params) ==
    LET ts == SelectTokens(flatten(tokenizePath(pattern)), "param")
    IN \A i \in DOMAIN ts :
          (ts[i].value \in DOMAIN params /\ params[ts[i].value].v # << >>) =>
             LET p == params[ts[i].value]
             IN IF p.isArray
                THEN \A n \in DOMAIN p.v : segmentFits(ts[i], encodeParam(p.v[n]))
                ELSE segmentFits(ts[i], encodeParam(p.v))

\* The path has no trailing "/" and spells the static segments as the pattern
\* does.
AsWritten(pattern, path) ==
    LET ts == SelectTokens(flatten(tokenizePath(pattern)), "static")
        segs == pathSegments(path)
    IN /\ (path = <<"/">> \/ Last(path) # "/")
       /\ \A i \in DOMAIN ts, j \in DOMAIN segs :
             sameText(segs[j], ts[i].value) => segs[j] = ts[i].value

Kept == Range(matchers) \cap Range(matchers')

\* The step keeps the relative order of the matchers it keeps.
OrderKept ==
    \A a, b \in Kept :
        IndexOf(matchers, a) < IndexOf(matchers, b) =>
            IndexOf(matchers', a) < IndexOf(matchers', b)

\* new and old are equally specific and neither is a descendant of the other
\* with the same path.
Tie(new, old) ==
    /\ comparePathParserScore(registryNext, new, old) = 0
    /\ ~(/\ arena'[new].record.path = arena'[old].record.path
         /\ (isRecordChildOf(registryNext, new, old)
             \/ isRecordChildOf(registryNext, old, new)))

\* new was put in front of an ancestor of the same path that precedes old.
BeforeAncestor(new, old) ==
    \E anc \in Range(matchers') :
        /\ arena'[anc].record.path = arena'[new].record.path
        /\ isRecordChildOf(registryNext, new, anc)
        /\ IndexOf(matchers', anc) < IndexOf(matchers', old)

RECURSIVE SumOver(_, _)
RECURSIVE MatchersFor(_)
SumOver(children, i) ==
    IF i > Len(children) THEN 0 ELSE MatchersFor(children[i]) + SumOver(children, i + 1)

MatchersFor(record) == (Len(record.alias) + 1) * (1 + SumOver(record.children, 1))

\* An addRoute call has just returned; JustAdded is its definition and
\* JustCreated the matchers it made.
JustAdds == last.op \in {"addRoute", "addChildRoute"}

JustAdded == IF last.op = "addRoute" THEN Catalogue[last.def] ELSE ChildCatalogue[last.def]

JustCreated ==
    LET cb == CHOOSE c \in callbacks : c.matcher = last.target
    IN cb.from .. cb.to

\* The pairs (matcher, position) whose alias list names a at that position.
ListedIn(a) ==
    {<<m, i>> \in (DOMAIN arena) \X (1 .. Len(arena)) :
        i \in DOMAIN arena[m].alias /\ arena[m].alias[i] = a}

Occurrences(m) == Cardinality({i \in DOMAIN matchers : matchers[i] = m})

\* Every matcher of the name table is once in the ordered sequence and is
\* stored under the name of its record.
NameTableSearchable ==
    \A n \in Names :
        matcherMap[n] # NoMatcher =>
            /\ Occurrences(matcherMap[n]) = 1
            /\ NameOf(matcherMap[n]) = n

\* C25: in every reachable state every matcher of the name table is exactly
\* once in the ordered sequence and is stored under its record's name; so
\* removeRoute(name) of a registered name takes that matcher out of the
\* sequence, and with it only matchers of its subtree.
C25_NameTableSearchable ==
    /\ []NameTableSearchable
    /\ [][(last'.op = "removeRouteByName" /\ matcherMap[last'.name] # NoMatcher) =>
             /\ matcherMap[last'.name] \in Range(matchers)
             /\ matcherMap[last'.name] \notin Range(matchers')
             /\ Range(matchers) \ Range(matchers') \subseteq Subtree(matcherMap[last'.name])
             /\ Len(matchers) - Len(matchers')
                  = Cardinality(Range(matchers) \ Range(matchers'))]_vars

\* A registered name has just been removed by name, after an earlier removal
\* of another named matcher, and other names stay registered.
C25_Witness ==
    /\ last.op = "removeRouteByName"
    /\ last.target # NoMatcher
    /\ removes = 2
    /\ ~InSequence(last.target)
    /\ matchers # << >>
    /\ \E n \in Names : matcherMap[n] # NoMatcher
    /\ \E m \in DOMAIN arena :
          m # last.target /\ NameOf(m) # NoName /\ ~InSequence(m) /\ ~IsUnder(m, last.target)

\* The named matchers of the ordered sequence that are not aliases.
NamedCanonical == {m \in Range(matchers) : NameOf(m) # NoName /\ ~isAliasRecord(registry, m)}

\* C26: in every reachable state each name is carried by at most one non-alias
\* matcher of the ordered sequence, and every named non-alias matcher of the
\* ordered sequence is the entry of the name table for its name.
C26_NamedCanonicalReachable ==
    /\ \A a, b \in NamedCanonical : NameOf(a) = NameOf(b) => a = b
    /\ \A m \in NamedCanonical : matcherMap[NameOf(m)] = m

\* The step invokes a removal callback whose matcher is no longer in the
\* ordered sequence: it was removed, or replaced by a later addRoute of its
\* name.
StaleCallback ==
    /\ last'.op = "removalCallback"
    /\ last'.target # NoMatcher
    /\ last'.target \notin Range(matchers)

\* C27: a removal callback invoked after its matcher was removed or replaced
\* changes nothing; the matcher that now carries the name stays in the
\* ordered sequence and resolving the name still selects it.
C27_StaleCallbackHarmless ==
    [][StaleCallback =>
          /\ RegistryUnchanged
          /\ LET name == NameOf(last'.target) IN
             (name # NoName /\ matcherMap[name] # NoMatcher) =>
                /\ matcherMap'[name] = matcherMap[name]
                /\ matcherMap'[name] \in Range(matchers')
                /\ resolve(registryNext, ByName(name, TRUE, Id42), AtRoot).error
                     # "MATCHER_NOT_FOUND"]_vars

\* The callback of the first definition named p was invoked after a second
\* definition of that name replaced it; the name stands for the second one.
C27_Witness ==
    /\ last.op = "removalCallback"
    /\ last.target # NoMatcher
    /\ NameOf(last.target) = "p"
    /\ ~InSequence(last.target)
    /\ matcherMap["p"] # NoMatcher
    /\ matcherMap["p"] > last.target
    /\ InSequence(matcherMap["p"])

\* The path a definition's path is registered under below a parent of path
\* parentPath.
Composed(parentPath, path) ==
    IF path = << >> THEN parentPath
    ELSE IF path[1] = "/" THEN path
    ELSE IF Last(parentPath) = "/" THEN parentPath \o path
    ELSE parentPath \o <<"/">> \o path

\* The paths of the matchers one addRoute call makes, in the order it makes
\* them: for the path and each alias path of the definition, the matcher of
\* that path, then those of the children below it.
RECURSIVE PathsOf(_, _, _)
RECURSIVE PathsBelow(_, _, _)
RECURSIVE PathsEach(_, _, _, _)
PathsOf(record, hasParent, parentPath) ==
    PathsEach(record, <<record.path>> \o record.alias, hasParent, parentPath)

PathsBelow(children, i, parentPath) ==
    IF i > Len(children) THEN << >>
    ELSE PathsOf(children[i], TRUE, parentPath) \o PathsBelow(children, i + 1, parentPath)

PathsEach(record, paths, hasParent, parentPath) ==
    IF paths = << >> THEN << >>
    ELSE LET full == IF hasParent THEN Composed(parentPath, Head(paths)) ELSE Head(paths)
         IN <<full>> \o PathsBelow(record.children, 1, full)
            \o PathsEach(record, Tail(paths), hasParent, parentPath)

\* C28: the matchers an addRoute call makes are registered under these paths:
\* a child or alias path that does not start with "/" under the path of the
\* parent record (alias parents included), one "/" and the path, the "/" left
\* out when the parent path ends with one; an empty child path under the
\* parent's path itself; a path that starts with "/" unchanged.
C28_PathComposition ==
    JustAdds =>
        LET first == CHOOSE m \in JustCreated : \A x \in JustCreated : m <= x
            parent == arena[first].parent
            expected == PathsOf(JustAdded, parent # NoMatcher,
                                IF parent # NoMatcher THEN PathOf(parent) ELSE << >>)
        IN /\ Len(expected) = Cardinality(JustCreated)
           /\ \A i \in DOMAIN expected : PathOf(first + i - 1) = expected[i]

\* The definition / with children x and /abs (alias y) was added: the
\* children are at /x, /abs and /y.
C28_Witness ==
    /\ last.op = "addRoute"
    /\ JustAdded = Home
    /\ {PathOf(m) : m \in JustCreated}
         = {<<"/">>, <<"/", "x">>, <<"/", "abs">>, <<"/", "y">>}

\* ------------------------------------------------------------ web history
\* The current entry of the window.
CurrentEntry == window.entries[window.index]

\* The place of the current entry after the step, in the entries after it.
EntryLeftBehind == window'.entries[window.index]

\* The position of the entry the call is made on: that of its state, or,
\* when it has none, the one the history holds for it.
PositionBefore ==
    IF "position" \in DOMAIN stateOf(window) THEN stateOf(window).position
    ELSE historyState.position

\* The step is a push whose replaceState and pushState calls succeed and
\* whose data has none of the fields of a state entry.
Pushes ==
    /\ hlast'.op = "push"
    /\ hlast'.quota = 2
    /\ DOMAIN hlast'.data \cap StateFields = {}

\* The entries before the current one are left as they are.
EntriesBehindKept ==
    \A i \in 1 .. (window.index - 1) : window'.entries[i] = window.entries[i]

ReplaceOutcome ==
    /\ currentLocation' = hlast'.to
    /\ historyState'.current = hlast'.to
    /\ historyState'.replaced = TRUE
    /\ historyState'.back = historyState.back
    /\ historyState'.forward = historyState.forward
    /\ historyState'.position = historyState.position
    /\ window'.index = window.index
    /\ Len(window'.entries) = Len(window.entries)
    /\ \A i \in DOMAIN window.entries : i # window.index => window'.entries[i] = window.entries[i]
    /\ stateOf(window') = historyState'

Replaces ==
    /\ hlast'.op = "replace"
    /\ hlast'.quota = 1
    /\ DOMAIN hlast'.data \cap {"back", "current", "forward", "replaced"} = {}

HistoryStateInvariant ==
    /\ historyState # NoState
    /\ (Running /\ window.listening) => stateOf(window) = historyState
    /\ (Running /\ window.listening) =>
          currentLocation = createCurrentLocation(base, CurrentEntry.url)

\* The entries of the document of the current entry that have a state.
Written ==
    {i \in DOMAIN window.entries :
        window.entries[i].doc = window.doc /\ window.entries[i].state # NoState}

\* The positions of the states differ from the indices of their entries by
\* one constant.
PositionsTrack ==
    \A i, j \in Written :
        window.entries[i].state.position - window.entries[j].state.position = i - j

\* The step is a traversal that dispatches popstate with a state to
\* popStateHandler.
PopsState ==
    /\ hlast'.op = "traverse"
    /\ hlast'.event = "popstate"
    /\ hlast'.state # NoState
    /\ window.listening

\* What listeners are called with: the delta is the number of entries
\* traversed, the direction its sign, to the new location and from the
\* location before.
ListenersTold ==
    \A i \in DOMAIN hlast'.calls :
        LET call == hlast'.calls[i] IN
        /\ call.delta = hlast'.delta
        /\ call.direction = (IF call.delta > 0 THEN "forward"
                             ELSE IF call.delta < 0 THEN "back" ELSE "unknown")
        /\ call.to = currentLocation'
        /\ call.to = stateOf(window').current
        /\ call.from = currentLocation

\* The entries are made by push and replace only (none by the window
\* itself), and the history is not destroyed.
Tracked == ~plan.fragments /\ window.listening

\* C31: with pushes, replaces and traversals only, the history not
\* destroyed, the position of the state of every entry differs from the index
\* of the entry by one constant, and on every popstate with a state the
\* listeners get the number of entries traversed as delta, its sign as
\* direction, the new location as to and the location before as from.
C31_PositionTracksStack ==
    /\ [](Tracked => PositionsTrack)
    /\ [][(Tracked /\ PopsState) => ListenersTold]_vars

\* No data given to push has a position.
NoPositionData == \A d \in plan.datas : "position" \notin DOMAIN d

\* The same with no position in the data given to push.
PositionsTrackWithoutData ==
    /\ []((Tracked /\ NoPositionData) => PositionsTrack)
    /\ [][(Tracked /\ NoPositionData /\ PopsState) => ListenersTold]_vars

\* The step dispatches popstate with a state to popStateHandler.
Pops ==
    /\ hlast'.event = "popstate"
    /\ hlast'.state # NoState
    /\ window.listening

\* The callbacks the listeners were called for, in the order of the calls.
Called == [i \in DOMAIN hlast'.calls |-> hlast'.calls[i].listener]

\* C32: the popstate of the traversal of a go(delta, false) sets the current
\* location and state, calls no listener and clears the pause; every other
\* popstate calls every registered listener, whatever push, replace and go
\* calls were made before it, a go(delta, false) without a traversal included.
C32_PauseOneEvent ==
    [][Pops =>
          /\ currentLocation' = stateOf(window').current
          /\ historyState' = stateOf(window')
          /\ IF hlast'.triggerListeners
             THEN Called = listeners
             ELSE Called = << >> /\ pauseState' = NoHistoryLocation]_vars

\* The callbacks of the registrations whose teardown was not called, in the
\* order of the listen calls.
Registered ==
    LET live == SelectSeq(handles, LAMBDA r : r.live) IN
    [i \in DOMAIN live |-> live[i].callback]

\* The step dispatches popstate to popStateHandler, which does not ignore it.
PopsHeard ==
    /\ hlast'.event = "popstate"
    /\ window.listening
    /\ ~(hlast'.state # NoState /\ pauseState # NoHistoryLocation
         /\ pauseState = currentLocation)

\* The step calls again a teardown already called, of a callback registered
\* once.
TearsDownAgain ==
    /\ hlast'.op = "teardown"
    /\ ~handles[hlast'.delta].live
    /\ Cardinality({i \in DOMAIN handles :
                      handles[i].callback = handles[hlast'.delta].callback}) = 1

\* C33: on every popstate not ignored the callbacks registered and not torn
\* down are called, in the order of their registration; a teardown called
\* again, its callback registered once, removes nothing; once destroy is
\* called no callback is called.
C33_Registration ==
    /\ [][PopsHeard => Called = Registered]_vars
    /\ [][TearsDownAgain => listeners' = listeners]_vars
    /\ [][~window.listening => hlast'.calls = << >>]_vars

\* Every callback is registered at most once.
RegisteredOnce ==
    \A i, j \in DOMAIN handles : handles[i].callback = handles[j].callback => i = j

\* The same, every callback registered at most once.
RegistrationOnce ==
    /\ [][(PopsHeard /\ RegisteredOnce) => Called = Registered]_vars
    /\ [][(TearsDownAgain /\ RegisteredOnce) => listeners' = listeners]_vars
    /\ [][~window.listening => hlast'.calls = << >>]_vars

\* The teardown of the later of two registrations of one callback has been
\* called, once, and the callback registered between them is now the first.
LaterRegistrationTornDown ==
    /\ Len(handles) = 3
    /\ handles[1].callback = handles[3].callback
    /\ handles[1].callback # handles[2].callback
    /\ handles[1].live /\ handles[2].live /\ ~handles[3].live
    /\ used.teardowns = 1
    /\ listeners = <<handles[2].callback, handles[1].callback>>

\* --- RouterLink
\* The step is a navigate call.
Navigates == Len(clicks') = Len(clicks) + 1

\* The text of the attribute contains _blank, in any letter case.
ContainsBlank(target) == \E i \in DOMAIN target : target[i] \in {"_blank", "_BLANK"}

\* The text of the attribute contains _blank in any letter case as a whole
\* word: no letter, digit or _ next to it.
ContainsBlankWord(target) ==
    \E i \in DOMAIN target :
        /\ target[i] \in {"_blank", "_BLANK"}
        /\ (i > 1 => target[i - 1] = " ")
        /\ (i < Len(target) => target[i + 1] = " ")

\* No modifier key is held, the default is not prevented and the button is the
\* main one or none.
PlainClick(e) ==
    /\ ~(e.metaKey \/ e.altKey \/ e.ctrlKey \/ e.shiftKey)
    /\ ~e.defaultPrevented
    /\ e.button \in {NoButton, 0}

\* The target attribute of the current target can be read.
ReadsTarget(e) == e.currentTarget.element /\ e.currentTarget.getAttribute

\* What a navigate call does when it is to start a navigation, and when not.
NavigateOutcome(starts) ==
    LET c == clicks'[Len(clicks')]
        e == clast'.event
    IN  IF starts
        THEN /\ c.call = RouterCall(IF linkProps.replace THEN "replace" ELSE "push",
                                    linkProps.to)
             /\ clast'.prevented = e.preventDefault
        ELSE /\ c.call = NoRouterCall
             /\ c.promise = "resolved"

NeverRejects == \A i \in DOMAIN clicks : clicks[i].promise # "rejected"

\* C34 as stated: navigate(e) calls router.replace (replace prop set) or
\* router.push with the to prop exactly when no modifier key is held, the
\* default is not prevented, the button is undefined or 0 and the current target
\* has no target attribute containing _blank, and then calls preventDefault when
\* the event has it; otherwise it calls nothing of the router and returns a
\* promise already resolved; the promise returned never rejects.
C34_NavigateContaining ==
    /\ [][Navigates =>
            NavigateOutcome(/\ PlainClick(clast'.event)
                            /\ ~(/\ ReadsTarget(clast'.event)
                                 /\ ContainsBlank(clast'.event.currentTarget.target)))]_vars
    /\ []NeverRejects

\* C34: the same, the target attribute containing _blank as a whole word, in
\* any letter case.
C34_Navigate ==
    /\ [][Navigates =>
            NavigateOutcome(/\ PlainClick(clast'.event)
                            /\ ~(/\ ReadsTarget(clast'.event)
                                 /\ ContainsBlankWord(clast'.event.currentTarget.target)))]_vars
    /\ []NeverRejects

\* navigate replaced on a plain click with preventDefault, which was called,
\* and the router's promise rejected.
C34_Witness ==
    /\ clicks # << >>
    /\ clicks[1].call = RouterCall("replace", linkProps.to)
    /\ PlainClick(clast.event) /\ clast.event.preventDefault /\ clast.prevented
    /\ clicks[1].router = "rejected"
    /\ clicks[1].promise = "fulfilled"

\* --- RouterView
\* The depth injected into the i-th RouterView of the chain.
InjectedDepth(i) == IF i = 1 THEN 0 ELSE views[i - 1].depth + 1

\* The matched the i-th RouterView displays.
Displayed(i) == routeToDisplay(views, injectedRoute, i)

\* C35: the depth of every RouterView is the smallest index from the depth
\* injected (0 at the root, the parent's depth + 1 below it) at which the
\* matched of the route displayed has components, and when there is none the
\* first index from the depth injected that is past the end of matched; so
\* the depths are strictly increasing along the chain and the record rendered,
\* when there is one, has components.
C35_Depth ==
    \A i \in DOMAIN views :
        LET d == views[i].depth
            matched == Displayed(i)
            from == InjectedDepth(i)
            having == {k \in from..(Len(matched) - 1) : matched[k + 1].components}
        IN  /\ d = IF having = {} THEN Max({from, Len(matched)})
                   ELSE CHOOSE k \in having : \A j \in having : k <= j
            /\ i > 1 => d > views[i - 1].depth
            /\ d < Len(matched) => matched[d + 1].components

\* A RouterView nested in another renders a record further than the next one,
\* having passed one without components, and a third one is past the end.
C35_Witness ==
    /\ Len(views) = 3
    /\ views[2].depth > views[1].depth + 1
    /\ views[2].depth < Len(Displayed(2))
    /\ ~Displayed(2)[views[2].depth].components
    /\ views[3].depth >= Len(Displayed(3))
====
